---- MODULE Spec2Model ----
(***************************************************************************)
(* One-way sync of inventory components with Airtable tables               *)
(* (map_layer_index/__init__.py, class Airtable and its adapters).         *)
(*                                                                         *)
(* Two engines are modelled, in construction order: ServersAirtable and    *)
(* NamespacesAirtable (whose adapters reference servers through the        *)
(* ServersAirtable bridge).  stat/load/sync/reset/status are the methods   *)
(* of the base class Airtable, inherited unchanged by every kind.          *)
(***************************************************************************)
EXTENDS Integers, Sequences, FiniteSets, TLC

VARIABLES
    table,      \* kind -> records of the remote table, in get_all() order
    next_rid,   \* next record id the remote service assigns
    engine,     \* kind -> fields of the Airtable engine object
    err,        \* exception that ended the invocation, or "none"
    hist        \* log of the operations called so far

vars == <<table, next_rid, engine, err, hist>>

\* Largest number of engine operations in one run.
MaxOps == 4

\* self.airtable_id = None
None == 0

\* A null object reference (self.server = None).
NoRef == "None"

Kinds == <<"Server", "Namespace">>

KindSet == {Kinds[i] : i \in 1..Len(Kinds)}

-----------------------------------------------------------------------------
(* Generic objects: the local collections (dicts in insertion order).      *)

servers ==
    << [id |-> "S1", label |-> "srv-1", hostname |-> "host-1",
        type |-> "GEOSERVER", version |-> "2.0"] >>

namespaces ==
    << [id |-> "N1", label |-> "ns-1", title |-> "One", isolated |-> FALSE,
        server |-> "S1"],
       [id |-> "N2", label |-> "ns-2", title |-> "Two", isolated |-> TRUE,
        server |-> "S1"] >>

repositories ==
    << [id |-> "R1", label |-> "repo-1", title |-> "Repo", type |-> "POSTGIS",
        hostname |-> "db-1", database |-> "gis", schema |-> "public",
        namespace |-> "N1"] >>

\* T2 is a global style: relationships['namespaces'] is None
styles ==
    << [id |-> "T1", label |-> "style-1", title |-> "Style one", type |-> "SLD",
        namespace |-> "N1"],
       [id |-> "T2", label |-> "style-2", title |-> "Style two", type |-> "SLD",
        namespace |-> NoRef] >>

layers ==
    << [id |-> "L1", label |-> "layer-1", title |-> "Layer", type |-> "VECTOR",
        geometry_type |-> "POINT", services |-> <<"WMS", "WFS">>,
        table_view |-> "tbl-1", namespace |-> "N1", repository |-> "R1",
        styles |-> <<"T1", "T2">>] >>

layer_groups ==
    << [id |-> "G1", label |-> "group-1", title |-> "Group",
        services |-> <<"WMS">>, namespace |-> "N1", layers |-> <<"L1">>,
        styles |-> <<"T1">>] >>

items(k) ==
    CASE k = "Server" -> servers
      [] k = "Namespace" -> namespaces
      [] k = "Repository" -> repositories
      [] k = "Style" -> styles
      [] k = "Layer" -> layers
      [] k = "LayerGroup" -> layer_groups

\* class ServerTypeAirtable(Enum): member name -> value
ServerTypeAirtable == [GEOSERVER |-> "GeoServer"]

\* ServerTypeAirtable(value): the member with that value, ValueError if none
ServerTypeAirtable_byValue(v) ==
    IF \E n \in DOMAIN ServerTypeAirtable : ServerTypeAirtable[n] = v
    THEN [raised |-> "none",
          member |-> CHOOSE n \in DOMAIN ServerTypeAirtable : ServerTypeAirtable[n] = v]
    ELSE [raised |-> "ValueError", member |-> NoRef]

RepositoryTypeAirtable ==
    [POSTGIS |-> "PostGIS", GEOTIFF |-> "GeoTiff", ECW |-> "ECW",
     JPEG2000 |-> "JPEG2000", IMAGEMOSAIC |-> "Image Mosaic",
     WORLDIMAGE |-> "World Image"]

StyleTypeAirtable == [SLD |-> "SLD"]

LayerTypeAirtable == [RASTER |-> "Raster", VECTOR |-> "Vector"]

LayerGeometryAirtable ==
    [POINT |-> "Point", LINESTRING |-> "Linestring", POLYGON |-> "Polygon",
     MULTIPOINT |-> "Multi-Point", MULTILINESTRING |-> "Multi-Linestring",
     MULTIPOLYGON |-> "Multi-Polygon"]

LayerServiceAirtable == [WMS |-> "WMS", WMTS |-> "WMTS", WCS |-> "WCS", WFS |-> "WFS"]

LayerGroupServiceAirtable ==
    [WMS |-> "WMS", WMTS |-> "WMTS", WCS |-> "WCS", WFS |-> "WFS"]

\* EnumClass(value): the member with that value, ValueError if none
Enum_byValue(enum, v) ==
    IF \E n \in DOMAIN enum : enum[n] = v
    THEN [raised |-> "none", member |-> CHOOSE n \in DOMAIN enum : enum[n] = v]
    ELSE [raised |-> "ValueError", member |-> NoRef]

RECURSIVE Enum_byValues(_, _)
\* for service in item['fields']['Services']: append(EnumClass(service))
Enum_byValues(enum, vs) ==
    IF vs = <<>> THEN [raised |-> "none", members |-> <<>>]
    ELSE LET h == Enum_byValue(enum, Head(vs))
             t == Enum_byValues(enum, Tail(vs))
         IN IF h.raised # "none" THEN [raised |-> h.raised, members |-> <<>>]
            ELSE IF t.raised # "none" THEN t
            ELSE [raised |-> "none", members |-> <<h.member>> \o t.members]

\* [member.value for member in members]
Enum_values(enum, members) == [i \in 1..Len(members) |-> enum[members[i]]]

-----------------------------------------------------------------------------
(* Sequence helpers.                                                       *)

Range(s) == {s[i] : i \in 1..Len(s)}

\* dict-like sequence keyed by .id
HasKey(d, id) == \E i \in 1..Len(d) : d[i].id = id

GetKey(d, id) == d[CHOOSE i \in 1..Len(d) : d[i].id = id]

\* PutKey that keeps the entry already stored under the key
PutKey_keepFirst(d, item) ==
    IF HasKey(d, item.id) THEN d ELSE Append(d, item)

\* d[item.id] = item : overwrite in place, or append
PutKey(d, item) ==
    IF HasKey(d, item.id)
    THEN [i \in 1..Len(d) |-> IF d[i].id = item.id THEN item ELSE d[i]]
    ELSE Append(d, item)

-----------------------------------------------------------------------------
(* Identifier bridge of an engine e (one kind's Airtable object).          *)

\* Airtable.get_by_id: a reference to the local wrapper (its key)
get_by_id(e, item_id) ==
    IF HasKey(e.items_local, item_id)
    THEN [raised |-> "none", ref |-> item_id]
    ELSE [raised |-> "KeyError", ref |-> NoRef]

\* Airtable.get_by_airtable_id
get_by_airtable_id(e, item_airtable_id) ==
    IF item_airtable_id \in DOMAIN e.airtable_ids_to_ids
    THEN get_by_id(e, e.airtable_ids_to_ids[item_airtable_id])
    ELSE [raised |-> "KeyError", ref |-> NoRef]

\* the wrapper a reference points to
Deref(e, ref) == GetKey(e.items_local, ref)

-----------------------------------------------------------------------------
(* Remote record adapters.  An adapter is a record of the object's         *)
(* attributes; `server` holds a reference into ServersAirtable.items_local *)
(* (the wrapper object itself in the source), or NoRef.                    *)

NoItem == [airtable_id |-> None, id |-> NoRef]

\* ServerAirtable.__init__, item a Server
ServerAirtable_outbound(item) ==
    [airtable_id |-> None, id |-> item.id, name |-> item.label,
     hostname |-> item.hostname, type |-> item.type, version |-> item.version]

\* ServerAirtable.__init__, item a dict (a remote record)
ServerAirtable_inbound(item) ==
    LET f == item.fields IN
    IF ~({"ID", "Name", "Hostname", "Type"} \subseteq DOMAIN f)
    THEN [raised |-> "KeyError", item |-> NoItem]
    ELSE IF ServerTypeAirtable_byValue(f.Type).raised # "none"
    THEN [raised |-> "ValueError", item |-> NoItem]
    ELSE IF "Version" \notin DOMAIN f
    THEN [raised |-> "KeyError", item |-> NoItem]
    ELSE [raised |-> "none",
          item |-> [airtable_id |-> item.id, id |-> f.ID, name |-> f.Name,
                    hostname |-> f.Hostname,
                    type |-> ServerTypeAirtable_byValue(f.Type).member,
                    version |-> f.Version]]

\* ServerAirtable.airtable_fields
ServerAirtable_airtable_fields(a) ==
    [raised |-> "none",
     fields |-> [ID |-> a.id, Name |-> a.name, Hostname |-> a.hostname,
                 Type |-> ServerTypeAirtable[a.type], Version |-> a.version]]

\* ServerAirtable._dict
ServerAirtable_dict(a) ==
    [id |-> a.id, name |-> a.name, hostname |-> a.hostname, type |-> a.type,
     version |-> a.version]

\* ServerAirtable.__eq__
ServerAirtable_eq(a, b) == ServerAirtable_dict(a) = ServerAirtable_dict(b)

\* NamespaceAirtable.__init__, item a Namespace; S is the ServersAirtable engine
NamespaceAirtable_outbound(item, S) ==
    [airtable_id |-> None, id |-> item.id, name |-> item.label,
     title |-> item.title, isolated |-> item.isolated,
     server |-> get_by_id(S, item.server).ref]

\* NamespaceAirtable.__init__, item a dict (a remote record)
NamespaceAirtable_inbound(item, S) ==
    LET f == item.fields
        isolated == "Isolated" \in DOMAIN f /\ f.Isolated = TRUE
        base == [airtable_id |-> item.id, id |-> f.ID, name |-> f.Name,
                 title |-> f.Title, isolated |-> isolated, server |-> NoRef]
    IN
    IF ~({"ID", "Name", "Title"} \subseteq DOMAIN f)
    THEN [raised |-> "KeyError", item |-> NoItem]
    ELSE IF "Server" \notin DOMAIN f
    THEN [raised |-> "none", item |-> base]
    ELSE IF f.Server = <<>>
    THEN [raised |-> "IndexError", item |-> NoItem]
    ELSE IF get_by_airtable_id(S, f.Server[1]).raised # "none"
    THEN [raised |-> "KeyError", item |-> NoItem]
    ELSE [raised |-> "none",
          item |-> [base EXCEPT !.server = get_by_airtable_id(S, f.Server[1]).ref]]

\* airtable_fields that sends the namespace's own remote id as Server
NamespaceAirtable_airtable_fields_ownId(a, S) ==
    [raised |-> "none",
     fields |-> [ID |-> a.id, Name |-> a.name, Title |-> a.title,
                 Isolated |-> a.isolated, Server |-> << a.airtable_id >>]]

\* NamespaceAirtable.airtable_fields
NamespaceAirtable_airtable_fields(a, S) ==
    IF a.server = NoRef
    THEN [raised |-> "AttributeError", fields |-> [ID |-> a.id]]
    ELSE [raised |-> "none",
          fields |-> [ID |-> a.id, Name |-> a.name, Title |-> a.title,
                      Isolated |-> a.isolated,
                      Server |-> << Deref(S, a.server).airtable_id >>]]

\* NamespaceAirtable.__eq__ : self._dict() == other._dict(), the dicts compared
\* key by key (id, name, title, isolated, server) up to the first difference;
\* the server values are ServerAirtable objects compared with their __eq__,
\* which fails on None unless both are the same object.
NamespaceAirtable_eq(a, b, S) ==
    IF a.id # b.id \/ a.name # b.name \/ a.title # b.title
       \/ a.isolated # b.isolated
    THEN "ne"
    ELSE IF a.server = b.server THEN "eq"
    ELSE IF a.server = NoRef \/ b.server = NoRef THEN "AttributeError"
    ELSE IF ServerAirtable_eq(Deref(S, a.server), Deref(S, b.server)) THEN "eq"
    ELSE "ne"

\* first exception raised by a sequence of steps, "none" if none raises
FirstRaised(steps) ==
    IF \A i \in 1..Len(steps) : steps[i] = "none" THEN "none"
    ELSE steps[CHOOSE i \in 1..Len(steps) :
                  /\ steps[i] # "none"
                  /\ \A j \in 1..(i - 1) : steps[j] = "none"]

\* an optional attribute read: item['fields'][name] if name in item['fields']
Optional(f, name) == IF name \in DOMAIN f THEN f[name] ELSE NoRef

\* if name in item['fields']: kwargs[...].get_by_airtable_id(item['fields'][name][0])
RelatedOne(e, f, name) ==
    IF name \notin DOMAIN f THEN [raised |-> "none", ref |-> NoRef]
    ELSE IF f[name] = <<>> THEN [raised |-> "IndexError", ref |-> NoRef]
    ELSE get_by_airtable_id(e, f[name][1])

RECURSIVE get_all_by_airtable_id(_, _)
\* for x in ids: append(kwargs[...].get_by_airtable_id(x))
get_all_by_airtable_id(e, ids) ==
    IF ids = <<>> THEN [raised |-> "none", refs |-> <<>>]
    ELSE LET h == get_by_airtable_id(e, Head(ids))
             t == get_all_by_airtable_id(e, Tail(ids))
         IN IF h.raised # "none" THEN [raised |-> h.raised, refs |-> <<>>]
            ELSE IF t.raised # "none" THEN t
            ELSE [raised |-> "none", refs |-> <<h.ref>> \o t.refs]

\* if name in item['fields']: for x in item['fields'][name]: append(...)
RelatedMany(e, f, name) ==
    IF name \notin DOMAIN f THEN [raised |-> "none", refs |-> <<>>]
    ELSE get_all_by_airtable_id(e, f[name])

\* for x in item.relationships[...]: append(kwargs[...].get_by_id(x.id))
get_all_by_id(e, ids) == [i \in 1..Len(ids) |-> get_by_id(e, ids[i]).ref]

\* [x.airtable_id for x in refs]
airtable_ids(e, refs) == [i \in 1..Len(refs) |-> Deref(e, refs[i]).airtable_id]

\* RepositoryAirtable.__init__, item a Repository; N is NamespacesAirtable
RepositoryAirtable_outbound(item, N) ==
    [airtable_id |-> None, id |-> item.id, name |-> item.label,
     title |-> item.title, type |-> item.type, host |-> item.hostname,
     database |-> item.database, schema |-> item.schema,
     workspace |-> get_by_id(N, item.namespace).ref]

\* RepositoryAirtable.__init__, item a dict
RepositoryAirtable_inbound(item, N) ==
    LET f == item.fields
        w == RelatedOne(N, f, "Workspace")
        raised == FirstRaised(<<
            IF {"ID", "Name", "Title", "Type"} \subseteq DOMAIN f
            THEN Enum_byValue(RepositoryTypeAirtable, f.Type).raised
            ELSE "KeyError",
            w.raised >>)
    IN IF raised # "none" THEN [raised |-> raised, item |-> NoItem]
       ELSE [raised |-> "none",
             item |-> [airtable_id |-> item.id, id |-> f.ID, name |-> f.Name,
                       title |-> f.Title,
                       type |-> Enum_byValue(RepositoryTypeAirtable, f.Type).member,
                       host |-> Optional(f, "Host"),
                       database |-> Optional(f, "Database"),
                       schema |-> Optional(f, "Schema"),
                       workspace |-> w.ref]]

\* RepositoryAirtable.airtable_fields
RepositoryAirtable_airtable_fields(a, N) ==
    IF a.workspace = NoRef
    THEN [raised |-> "AttributeError", fields |-> [ID |-> a.id]]
    ELSE [raised |-> "none",
          fields |-> [ID |-> a.id, Name |-> a.name, Title |-> a.title,
                      Type |-> RepositoryTypeAirtable[a.type], Host |-> a.host,
                      Database |-> a.database, Schema |-> a.schema,
                      Workspace |-> << Deref(N, a.workspace).airtable_id >>]]

\* RepositoryAirtable._dict
RepositoryAirtable_dict(a, N) ==
    IF a.workspace = NoRef
    THEN [raised |-> "AttributeError", d |-> [id |-> a.id]]
    ELSE [raised |-> "none",
          d |-> [id |-> a.id, name |-> a.name, title |-> a.title,
                 type |-> RepositoryTypeAirtable[a.type], host |-> a.host,
                 database |-> a.database, schema |-> a.schema,
                 workspace |-> << Deref(N, a.workspace).airtable_id >>]]

\* self._dict() == other._dict() : both dicts are built, then compared
DictEq(x, y) ==
    IF x.raised # "none" THEN x.raised
    ELSE IF y.raised # "none" THEN y.raised
    ELSE IF x.d = y.d THEN "eq" ELSE "ne"

\* RepositoryAirtable.__eq__
RepositoryAirtable_eq(a, b, N) ==
    DictEq(RepositoryAirtable_dict(a, N), RepositoryAirtable_dict(b, N))

\* StyleAirtable.__init__, item a Style
StyleAirtable_outbound(item, N) ==
    [airtable_id |-> None, id |-> item.id, name |-> item.label,
     title |-> item.title, type |-> item.type,
     workspace |-> IF item.namespace = NoRef THEN NoRef
                   ELSE get_by_id(N, item.namespace).ref]

\* StyleAirtable.__init__, item a dict
StyleAirtable_inbound(item, N) ==
    LET f == item.fields
        w == RelatedOne(N, f, "Workspace")
        raised == FirstRaised(<<
            IF {"ID", "Name", "Title", "Type"} \subseteq DOMAIN f
            THEN Enum_byValue(StyleTypeAirtable, f.Type).raised
            ELSE "KeyError",
            w.raised >>)
    IN IF raised # "none" THEN [raised |-> raised, item |-> NoItem]
       ELSE [raised |-> "none",
             item |-> [airtable_id |-> item.id, id |-> f.ID, name |-> f.Name,
                       title |-> f.Title,
                       type |-> Enum_byValue(StyleTypeAirtable, f.Type).member,
                       workspace |-> w.ref]]

\* StyleAirtable.airtable_fields
StyleAirtable_airtable_fields(a, N) ==
    LET _fields == [ID |-> a.id, Name |-> a.name, Title |-> a.title,
                    Type |-> StyleTypeAirtable[a.type]]
    IN [raised |-> "none",
        fields |-> IF a.workspace = NoRef THEN _fields
                   ELSE _fields @@
                        [Workspace |-> << Deref(N, a.workspace).airtable_id >>]]

\* the variant that reads the workspace of every style
StyleAirtable_dict_alwaysWorkspace(a, N) ==
    IF a.workspace = NoRef
    THEN [raised |-> "AttributeError", d |-> [id |-> a.id]]
    ELSE [raised |-> "none",
          d |-> [id |-> a.id, name |-> a.name, title |-> a.title,
                 type |-> StyleTypeAirtable[a.type],
                 namespace |-> << Deref(N, a.workspace).airtable_id >>]]

\* StyleAirtable._dict
StyleAirtable_dict(a, N) ==
    LET _dict == [id |-> a.id, name |-> a.name, title |-> a.title,
                  type |-> StyleTypeAirtable[a.type]]
    IN [raised |-> "none",
        d |-> IF a.workspace = NoRef THEN _dict
              ELSE _dict @@
                   [namespace |-> << Deref(N, a.workspace).airtable_id >>]]

\* StyleAirtable.__eq__
StyleAirtable_eq(a, b, N) ==
    DictEq(StyleAirtable_dict(a, N), StyleAirtable_dict(b, N))

\* LayerAirtable.__init__, item a Layer; N, R, T are NamespacesAirtable,
\* RepositoriesAirtable and StylesAirtable
LayerAirtable_outbound(item, N, R, T) ==
    [airtable_id |-> None, id |-> item.id, name |-> item.label,
     title |-> item.title, type |-> item.type, geometry |-> item.geometry_type,
     services |-> item.services, table_view |-> item.table_view,
     workspace |-> get_by_id(N, item.namespace).ref,
     store |-> get_by_id(R, item.repository).ref,
     styles |-> get_all_by_id(T, item.styles)]

\* LayerAirtable.__init__, item a dict
LayerAirtable_inbound(item, N, R, T) ==
    LET f == item.fields
        g == IF "Geometry" \in DOMAIN f
             THEN Enum_byValue(LayerGeometryAirtable, f.Geometry)
             ELSE [raised |-> "none", member |-> NoRef]
        sv == IF "Services" \in DOMAIN f
              THEN Enum_byValues(LayerServiceAirtable, f.Services)
              ELSE [raised |-> "none", members |-> <<>>]
        w == RelatedOne(N, f, "Workspace")
        st == RelatedOne(R, f, "Store")
        sy == RelatedMany(T, f, "Styles")
        raised == FirstRaised(<<
            IF {"ID", "Name", "Title", "Type"} \subseteq DOMAIN f
            THEN Enum_byValue(LayerTypeAirtable, f.Type).raised
            ELSE "KeyError",
            g.raised, sv.raised, w.raised, st.raised, sy.raised >>)
    IN IF raised # "none" THEN [raised |-> raised, item |-> NoItem]
       ELSE [raised |-> "none",
             item |-> [airtable_id |-> item.id, id |-> f.ID, name |-> f.Name,
                       title |-> f.Title,
                       type |-> Enum_byValue(LayerTypeAirtable, f.Type).member,
                       geometry |-> g.member, services |-> sv.members,
                       table_view |-> Optional(f, "Table/View"),
                       workspace |-> w.ref, store |-> st.ref,
                       styles |-> sy.refs]]

\* LayerAirtable.airtable_fields
\* the variant that leaves an empty Styles list out of the fields
LayerAirtable_airtable_fields_omitEmpty(a, N, R, T) ==
    IF a.workspace = NoRef \/ a.store = NoRef
    THEN [raised |-> "AttributeError", fields |-> [ID |-> a.id]]
    ELSE [raised |-> "none",
          fields |-> [ID |-> a.id, Name |-> a.name, Title |-> a.title,
                      Type |-> LayerTypeAirtable[a.type],
                      Geometry |-> IF a.geometry = NoRef THEN NoRef
                                   ELSE LayerGeometryAirtable[a.geometry],
                      Services |-> Enum_values(LayerServiceAirtable, a.services),
                      Workspace |-> << Deref(N, a.workspace).airtable_id >>,
                      Store |-> << Deref(R, a.store).airtable_id >>]
                     @@ ("Table/View" :> a.table_view)
                     @@ (IF a.styles = <<>> THEN <<>>
                         ELSE [Styles |-> airtable_ids(T, a.styles)])]

LayerAirtable_airtable_fields(a, N, R, T) ==
    IF a.workspace = NoRef \/ a.store = NoRef
    THEN [raised |-> "AttributeError", fields |-> [ID |-> a.id]]
    ELSE [raised |-> "none",
          fields |-> [ID |-> a.id, Name |-> a.name, Title |-> a.title,
                      Type |-> LayerTypeAirtable[a.type],
                      Geometry |-> IF a.geometry = NoRef THEN NoRef
                                   ELSE LayerGeometryAirtable[a.geometry],
                      Services |-> Enum_values(LayerServiceAirtable, a.services),
                      Workspace |-> << Deref(N, a.workspace).airtable_id >>,
                      Store |-> << Deref(R, a.store).airtable_id >>,
                      Styles |-> airtable_ids(T, a.styles)]
                     @@ ("Table/View" :> a.table_view)]

\* LayerAirtable._dict
LayerAirtable_dict(a, N, R, T) ==
    IF a.workspace = NoRef \/ a.store = NoRef
    THEN [raised |-> "AttributeError", d |-> [id |-> a.id]]
    ELSE [raised |-> "none",
          d |-> [id |-> a.id, name |-> a.name, title |-> a.title,
                 type |-> LayerTypeAirtable[a.type],
                 geometry |-> IF a.geometry = NoRef THEN NoRef
                              ELSE LayerGeometryAirtable[a.geometry],
                 services |-> Enum_values(LayerServiceAirtable, a.services),
                 workspace |-> << Deref(N, a.workspace).airtable_id >>,
                 store |-> << Deref(R, a.store).airtable_id >>,
                 styles |-> airtable_ids(T, a.styles)]
                @@ ("table-view" :> a.table_view)]

\* LayerAirtable.__eq__
LayerAirtable_eq(a, b, N, R, T) ==
    DictEq(LayerAirtable_dict(a, N, R, T), LayerAirtable_dict(b, N, R, T))

\* LayerGroupAirtable.__init__, item a LayerGroup; N, T, L are
\* NamespacesAirtable, StylesAirtable and LayersAirtable
LayerGroupAirtable_outbound(item, N, T, L) ==
    [airtable_id |-> None, id |-> item.id, name |-> item.label,
     title |-> item.title, services |-> item.services,
     workspace |-> IF item.namespace = NoRef THEN NoRef
                   ELSE get_by_id(N, item.namespace).ref,
     layers |-> get_all_by_id(L, item.layers),
     styles |-> get_all_by_id(T, item.styles)]

\* LayerGroupAirtable.__init__, item a dict
LayerGroupAirtable_inbound(item, N, T, L) ==
    LET f == item.fields
        sv == IF "Services" \in DOMAIN f
              THEN Enum_byValues(LayerGroupServiceAirtable, f.Services)
              ELSE [raised |-> "none", members |-> <<>>]
        w == RelatedOne(N, f, "Workspace")
        ly == RelatedMany(L, f, "Layers")
        sy == RelatedMany(T, f, "Styles")
        raised == FirstRaised(<<
            IF {"ID", "Name", "Title"} \subseteq DOMAIN f THEN "none"
            ELSE "KeyError",
            sv.raised, w.raised, ly.raised, sy.raised >>)
    IN IF raised # "none" THEN [raised |-> raised, item |-> NoItem]
       ELSE [raised |-> "none",
             item |-> [airtable_id |-> item.id, id |-> f.ID, name |-> f.Name,
                       title |-> f.Title, services |-> sv.members,
                       workspace |-> w.ref, layers |-> ly.refs,
                       styles |-> sy.refs]]

\* LayerGroupAirtable.airtable_fields
LayerGroupAirtable_airtable_fields(a, N, T, L) ==
    IF a.workspace = NoRef
    THEN [raised |-> "AttributeError", fields |-> [ID |-> a.id]]
    ELSE [raised |-> "none",
          fields |-> [ID |-> a.id, Name |-> a.name, Title |-> a.title,
                      Services |-> Enum_values(LayerGroupServiceAirtable, a.services),
                      Workspace |-> << Deref(N, a.workspace).airtable_id >>,
                      Layers |-> airtable_ids(L, a.layers),
                      Styles |-> airtable_ids(T, a.styles)]]

\* LayerGroupAirtable._dict
LayerGroupAirtable_dict(a, N, T, L) ==
    IF a.workspace = NoRef
    THEN [raised |-> "AttributeError", d |-> [id |-> a.id]]
    ELSE [raised |-> "none",
          d |-> [id |-> a.id, name |-> a.name, title |-> a.title,
                 services |-> Enum_values(LayerGroupServiceAirtable, a.services),
                 workspace |-> << Deref(N, a.workspace).airtable_id >>,
                 layers |-> airtable_ids(L, a.layers),
                 styles |-> airtable_ids(T, a.styles)]]

\* LayerGroupAirtable.__eq__
LayerGroupAirtable_eq(a, b, N, T, L) ==
    DictEq(LayerGroupAirtable_dict(a, N, T, L), LayerGroupAirtable_dict(b, N, T, L))

\* self.ItemClassAirtable(item=item, **self.kwargs), item a local entity
ItemClassAirtable_outbound(k, item, E) ==
    CASE k = "Server" -> ServerAirtable_outbound(item)
      [] k = "Namespace" -> NamespaceAirtable_outbound(item, E["Server"])
      [] k = "Repository" -> RepositoryAirtable_outbound(item, E["Namespace"])
      [] k = "Style" -> StyleAirtable_outbound(item, E["Namespace"])
      [] k = "Layer" ->
            LayerAirtable_outbound(item, E["Namespace"], E["Repository"], E["Style"])
      [] k = "LayerGroup" ->
            LayerGroupAirtable_outbound(item, E["Namespace"], E["Style"], E["Layer"])

\* self.ItemClassAirtable(item=airtable_item, **self.kwargs)
ItemClassAirtable_inbound(k, item, E) ==
    CASE k = "Server" -> ServerAirtable_inbound(item)
      [] k = "Namespace" -> NamespaceAirtable_inbound(item, E["Server"])
      [] k = "Repository" -> RepositoryAirtable_inbound(item, E["Namespace"])
      [] k = "Style" -> StyleAirtable_inbound(item, E["Namespace"])
      [] k = "Layer" ->
            LayerAirtable_inbound(item, E["Namespace"], E["Repository"], E["Style"])
      [] k = "LayerGroup" ->
            LayerGroupAirtable_inbound(item, E["Namespace"], E["Style"], E["Layer"])

\* item.airtable_fields()
airtable_fields(k, a, E) ==
    CASE k = "Server" -> ServerAirtable_airtable_fields(a)
      [] k = "Namespace" -> NamespaceAirtable_airtable_fields(a, E["Server"])
      [] k = "Repository" -> RepositoryAirtable_airtable_fields(a, E["Namespace"])
      [] k = "Style" -> StyleAirtable_airtable_fields(a, E["Namespace"])
      [] k = "Layer" ->
            LayerAirtable_airtable_fields(a, E["Namespace"], E["Repository"], E["Style"])
      [] k = "LayerGroup" ->
            LayerGroupAirtable_airtable_fields(a, E["Namespace"], E["Style"], E["Layer"])

\* item != other : "ne", "eq" or the exception raised
NotEqual(k, a, b, E) ==
    CASE k = "Server" -> (IF ServerAirtable_eq(a, b) THEN "eq" ELSE "ne")
      [] k = "Namespace" -> NamespaceAirtable_eq(a, b, E["Server"])
      [] k = "Repository" -> RepositoryAirtable_eq(a, b, E["Namespace"])
      [] k = "Style" -> StyleAirtable_eq(a, b, E["Namespace"])
      [] k = "Layer" ->
            LayerAirtable_eq(a, b, E["Namespace"], E["Repository"], E["Style"])
      [] k = "LayerGroup" ->
            LayerGroupAirtable_eq(a, b, E["Namespace"], E["Style"], E["Layer"])

-----------------------------------------------------------------------------
(* The remote table client (airtable.Airtable): the four calls the engine  *)
(* makes.  Records keep the fields they were given; record ids are never   *)
(* reused.                                                                 *)

RECURSIVE batch_insert(_, _, _)
\* self.airtable.batch_insert(records=_items): [table, next_rid] afterwards
batch_insert(tbl, rid, records) ==
    IF records = <<>> THEN [table |-> tbl, next_rid |-> rid]
    ELSE batch_insert(Append(tbl, [id |-> rid, fields |-> Head(records)]),
                      rid + 1, Tail(records))

\* self.airtable.update(record_id=..., fields=...)
update(tbl, record_id, fields) ==
    [i \in 1..Len(tbl) |->
        IF tbl[i].id = record_id
        THEN [tbl[i] EXCEPT !.fields = fields @@ @]
        ELSE tbl[i]]

\* self.airtable.batch_delete(record_ids=_ids)
batch_delete(tbl, record_ids) ==
    SelectSeq(tbl, LAMBDA r : r.id \notin Range(record_ids))

-----------------------------------------------------------------------------
(* class Airtable.  An engine e is the record of the object's attributes;  *)
(* E maps each kind to its engine (self.kwargs holds the sibling engines). *)

NoEngine ==
    [items_local |-> <<>>, items_airtable |-> <<>>, airtable_ids_to_ids |-> <<>>,
     missing |-> <<>>, current |-> <<>>, outdated |-> <<>>, orphaned |-> <<>>]

\* the variant that leaves a wrapper's remote id alone once it has one
Correlate_keepFirstId(e, item) ==
    [e EXCEPT
        !.items_local = [i \in 1..Len(@) |->
            IF @[i].id = item.id /\ @[i].airtable_id = None
            THEN [@[i] EXCEPT !.airtable_id = item.airtable_id]
            ELSE @[i]],
        !.airtable_ids_to_ids = (item.airtable_id :> item.id) @@ @]

\* try to add Airtable ID to corresponding local item
Correlate(e, item) ==
    [e EXCEPT
        !.items_local = [i \in 1..Len(@) |->
            IF @[i].id = item.id
            THEN [@[i] EXCEPT !.airtable_id = item.airtable_id]
            ELSE @[i]],
        !.airtable_ids_to_ids = (item.airtable_id :> item.id) @@ @]

\* Airtable.stat, body of the loop once ItemClassAirtable(item=airtable_item)
\* has given p: the try / except, with the exceptions the except clause
\* names, and the correlation by ID
stat_remote_parsed(item_id, p, e, caught) ==
    IF p.raised \in caught
    THEN [raised |-> "none", e |-> [e EXCEPT !.orphaned = Append(@, item_id)]]
    ELSE IF p.raised # "none"
    THEN [raised |-> p.raised, e |-> e]
    ELSE IF ~HasKey(e.items_local, p.item.id)
    THEN [raised |-> "none",
          e |-> [e EXCEPT !.items_airtable = PutKey(@, p.item),
                          !.orphaned = Append(@, item_id)]]
    ELSE [raised |-> "none",
          e |-> Correlate([e EXCEPT !.items_airtable = PutKey(@, p.item)], p.item)]

\* stat_remote_item whose except clause also catches ValueError
stat_remote_item_catchValueError(k, airtable_item, e, E) ==
    IF "ID" \notin DOMAIN airtable_item.fields
    THEN [raised |-> "KeyError", e |-> e]
    ELSE stat_remote_parsed(airtable_item.fields.ID,
                            ItemClassAirtable_inbound(k, airtable_item, E),
                            e, {"KeyError", "ValueError"})

\* Airtable.stat, body of the loop over self.airtable.get_all()
stat_remote_item(k, airtable_item, e, E) ==
    IF "ID" \notin DOMAIN airtable_item.fields
    THEN [raised |-> "KeyError", e |-> e]
    ELSE stat_remote_parsed(airtable_item.fields.ID,
                            ItemClassAirtable_inbound(k, airtable_item, E),
                            e, {"KeyError"})

RECURSIVE stat_remote(_, _, _, _)
RECURSIVE stat_remote_rest(_, _, _, _)
\* Airtable.stat, the loop over self.airtable.get_all()
stat_remote(k, recs, e, E) ==
    IF recs = <<>> THEN [raised |-> "none", e |-> e]
    ELSE stat_remote_rest(k, Tail(recs), stat_remote_item(k, Head(recs), e, E), E)

\* Airtable.stat, the loop after an iteration gave r: an exception ends it
stat_remote_rest(k, recs, r, E) ==
    IF r.raised # "none" THEN r
    ELSE stat_remote(k, recs, r.e, E)

\* stat_local_item without the `continue` after outdated.append
stat_local_item_noContinue(k, item, e, E) ==
    IF ~HasKey(e.items_airtable, item.id)
    THEN [raised |-> "none", e |-> [e EXCEPT !.missing = Append(@, item.id)]]
    ELSE
    LET c == NotEqual(k, item, GetKey(e.items_airtable, item.id), E) IN
    IF c = "ne"
    THEN [raised |-> "none", e |-> [e EXCEPT !.outdated = Append(@, item.id),
                                             !.current = Append(@, item.id)]]
    ELSE IF c = "eq"
    THEN [raised |-> "none", e |-> [e EXCEPT !.current = Append(@, item.id)]]
    ELSE [raised |-> c, e |-> e]

\* Airtable.stat, body of the loop over self.items_local.values()
stat_local_item(k, item, e, E) ==
    IF ~HasKey(e.items_airtable, item.id)
    THEN [raised |-> "none", e |-> [e EXCEPT !.missing = Append(@, item.id)]]
    ELSE
    LET c == NotEqual(k, item, GetKey(e.items_airtable, item.id), E) IN
    IF c = "ne"
    THEN [raised |-> "none", e |-> [e EXCEPT !.outdated = Append(@, item.id)]]
    ELSE IF c = "eq"
    THEN [raised |-> "none", e |-> [e EXCEPT !.current = Append(@, item.id)]]
    ELSE [raised |-> c, e |-> e]

RECURSIVE stat_local(_, _, _, _)
\* Airtable.stat, the loop over self.items_local.values()
stat_local(k, i, e, E) ==
    IF i > Len(e.items_local) THEN [raised |-> "none", e |-> e]
    ELSE LET r == stat_local_item(k, e.items_local[i], e, E) IN
         IF r.raised # "none" THEN r
         ELSE stat_local(k, i + 1, r.e, E)

\* Airtable.stat, the loop over self.items_local, reached when the loop
\* over the remote records gave r without an exception
stat_locals(k, r, E) ==
    IF r.raised # "none" THEN r
    ELSE stat_local(k, 1, r.e, E)

\* Airtable.stat: [raised, e] with e the engine afterwards
stat(k, e, recs, E) ==
    stat_locals(k,
                stat_remote(k, recs,
                            [e EXCEPT !.items_airtable = <<>>, !.missing = <<>>,
                                      !.current = <<>>, !.outdated = <<>>,
                                      !.orphaned = <<>>],
                            E),
                E)

\* Airtable.__init__: wrap the local items, then stat()
Airtable_init(k, recs, E) ==
    LET its == items(k)
        e == [NoEngine EXCEPT !.items_local =
                [i \in 1..Len(its) |-> ItemClassAirtable_outbound(k, its[i], E)]]
    IN stat(k, e, recs, E)

RECURSIVE load_items(_, _, _, _)
\* Airtable.load, the loop building _items: [raised, records]
load_items(k, ids, e, E) ==
    IF ids = <<>> THEN [raised |-> "none", records |-> <<>>]
    ELSE LET f == airtable_fields(k, GetKey(e.items_local, Head(ids)), E)
             rest == load_items(k, Tail(ids), e, E)
         IN IF f.raised # "none" THEN [raised |-> f.raised, records |-> <<>>]
            ELSE IF rest.raised # "none" THEN rest
            ELSE [raised |-> "none", records |-> <<f.fields>> \o rest.records]

\* The result of an operation: the exception raised (or "none"), the engine
\* and the remote side R = [table, next_rid, calls] afterwards, and the
\* value returned.
NoStatus ==
    [current |-> <<>>, outdated |-> <<>>, missing |-> <<>>, orphaned |-> <<>>]

\* load that empties self.missing once the records are created
load_clearMissing(k, e, R, E) ==
    LET its == load_items(k, e.missing, e, E)
        ins == batch_insert(R.table, R.next_rid, its.records)
    IN IF its.raised # "none"
       THEN [raised |-> its.raised, e |-> e, R |-> R, ret |-> NoStatus]
       ELSE [raised |-> "none", e |-> [e EXCEPT !.missing = <<>>],
             ret |-> NoStatus,
             R |-> [table |-> ins.table, next_rid |-> ins.next_rid,
                    calls |-> Append(R.calls,
                        [call |-> "batch_insert", records |-> its.records])]]

\* Airtable.load
load(k, e, R, E) ==
    LET its == load_items(k, e.missing, e, E)
        ins == batch_insert(R.table, R.next_rid, its.records)
    IN IF its.raised # "none"
       THEN [raised |-> its.raised, e |-> e, R |-> R, ret |-> NoStatus]
       ELSE [raised |-> "none", e |-> e, ret |-> NoStatus,
             R |-> [table |-> ins.table, next_rid |-> ins.next_rid,
                    calls |-> Append(R.calls,
                        [call |-> "batch_insert", records |-> its.records])]]

RECURSIVE sync_outdated_remoteItem(_, _, _, _, _)
\* sync_outdated that takes the item from self.items_airtable
sync_outdated_remoteItem(k, ids, e, R, E) ==
    IF ids = <<>> THEN [raised |-> "none", R |-> R]
    ELSE LET item == GetKey(e.items_airtable, Head(ids))
             f == airtable_fields(k, item, E)
         IN IF f.raised # "none" THEN [raised |-> f.raised, R |-> R]
            ELSE sync_outdated_remoteItem(k, Tail(ids), e,
                    [R EXCEPT
                        !.table = update(@, item.airtable_id, f.fields),
                        !.calls = Append(@, [call |-> "update",
                                             record_id |-> item.airtable_id,
                                             fields |-> f.fields])],
                    E)

RECURSIVE sync_outdated(_, _, _, _, _)
\* Airtable.sync, the loop over self.outdated: [raised, R]
sync_outdated(k, ids, e, R, E) ==
    IF ids = <<>> THEN [raised |-> "none", R |-> R]
    ELSE LET item == GetKey(e.items_local, Head(ids))
             f == airtable_fields(k, item, E)
         IN IF f.raised # "none" THEN [raised |-> f.raised, R |-> R]
            ELSE sync_outdated(k, Tail(ids), e,
                    [R EXCEPT
                        !.table = update(@, item.airtable_id, f.fields),
                        !.calls = Append(@, [call |-> "update",
                                             record_id |-> item.airtable_id,
                                             fields |-> f.fields])],
                    E)

RECURSIVE sync_orphaned(_, _)
\* Airtable.sync, the loop building _ids: [raised, record_ids]
sync_orphaned(ids, e) ==
    IF ids = <<>> THEN [raised |-> "none", record_ids |-> <<>>]
    ELSE IF ~HasKey(e.items_airtable, Head(ids))
    THEN [raised |-> "KeyError", record_ids |-> <<>>]
    ELSE LET rest == sync_orphaned(Tail(ids), e) IN
         IF rest.raised # "none" THEN rest
         ELSE [raised |-> "none",
               record_ids |-> <<GetKey(e.items_airtable, Head(ids)).airtable_id>>
                              \o rest.record_ids]

\* sync that deletes the orphaned records before it updates the outdated
sync_deleteBeforeUpdate(k, e, R, E) ==
    LET l == load(k, e, R, E)
        d == sync_orphaned(e.orphaned, e)
        del == [l.R EXCEPT
                   !.table = batch_delete(@, d.record_ids),
                   !.calls = Append(@, [call |-> "batch_delete",
                                        record_ids |-> d.record_ids])]
        u == sync_outdated(k, e.outdated, e, del, E)
    IN IF l.raised # "none" THEN l
       ELSE IF d.raised # "none"
       THEN [raised |-> d.raised, e |-> e, R |-> l.R, ret |-> NoStatus]
       ELSE [raised |-> u.raised, e |-> e, R |-> u.R, ret |-> NoStatus]

\* Airtable.sync
sync(k, e, R, E) ==
    LET l == load(k, e, R, E)
        u == sync_outdated(k, e.outdated, e, l.R, E)
        d == sync_orphaned(e.orphaned, e)
    IN IF l.raised # "none" THEN l
       ELSE IF u.raised # "none"
       THEN [raised |-> u.raised, e |-> e, R |-> u.R, ret |-> NoStatus]
       ELSE IF d.raised # "none"
       THEN [raised |-> d.raised, e |-> e, R |-> u.R, ret |-> NoStatus]
       ELSE [raised |-> "none", e |-> e, ret |-> NoStatus,
             R |-> [u.R EXCEPT
                        !.table = batch_delete(@, d.record_ids),
                        !.calls = Append(@, [call |-> "batch_delete",
                                             record_ids |-> d.record_ids])]]

\* Airtable.reset
reset(k, e, R, E) ==
    LET _ids == [i \in 1..Len(e.items_airtable) |-> e.items_airtable[i].airtable_id]
    IN [raised |-> "none", e |-> e, ret |-> NoStatus,
        R |-> [R EXCEPT
                  !.table = batch_delete(@, _ids),
                  !.calls = Append(@, [call |-> "batch_delete",
                                       record_ids |-> _ids])]]

\* Airtable.status, the dict returned after self.stat() gave s
status_return(s, R) ==
    [raised |-> s.raised, e |-> s.e, R |-> R,
     ret |-> IF s.raised # "none" THEN NoStatus
             ELSE [current |-> s.e.current, outdated |-> s.e.outdated,
                   missing |-> s.e.missing, orphaned |-> s.e.orphaned]]

\* Airtable.status
status(k, e, R, E) == status_return(stat(k, e, R.table, E), R)

-----------------------------------------------------------------------------
(* Remote tables the run may start from.                                   *)

ServerRecord(rid, id, name) ==
    [id |-> rid,
     fields |-> [ID |-> id, Name |-> name, Hostname |-> "host-1",
                 Type |-> "GeoServer", Version |-> "2.0"]]

\* a Workspaces record without the Server field
NamespaceBare(rid, id, name, title, isolated) ==
    [id |-> rid,
     fields |-> [ID |-> id, Name |-> name, Title |-> title, Isolated |-> isolated]]

\* a Workspaces record whose Server field holds the record id srv
NamespaceRecord(rid, id, name, title, isolated, srv) ==
    [id |-> rid,
     fields |-> [ID |-> id, Name |-> name, Title |-> title, Isolated |-> isolated,
                 Server |-> <<srv>>]]

N1rec(rid) == NamespaceRecord(rid, "N1", "ns-1", "One", FALSE, 1)
N2rec(rid) == NamespaceRecord(rid, "N2", "ns-2", "Two", TRUE, 1)

ServerSynced == << ServerRecord(1, "S1", "srv-1") >>

NamespaceSynced == << N1rec(11), N2rec(12) >>

ServerTables ==
    { <<>>,
      ServerSynced,
      \* a changed scalar field
      << ServerRecord(1, "S1", "srv-old") >>,
      \* a record of a server no longer known locally
      << ServerRecord(1, "S1", "srv-1"), ServerRecord(2, "S9", "srv-9") >>,
      \* two records declaring the same ID
      << ServerRecord(1, "S1", "srv-old"), ServerRecord(2, "S1", "srv-1") >> }

NamespaceTables ==
    { <<>>,
      NamespaceSynced,
      \* one record missing, one with a changed scalar field
      << NamespaceRecord(11, "N1", "ns-1", "Old", FALSE, 1),
         NamespaceRecord(13, "N9", "ns-9", "Nine", FALSE, 1) >>,
      << N1rec(11), NamespaceRecord(12, "N2", "ns-2", "Old", TRUE, 1) >>,
      \* a record of a namespace no longer known locally
      << N1rec(11), N2rec(12), NamespaceRecord(13, "N9", "ns-9", "Nine", FALSE, 1) >>,
      \* two records declaring the same unknown ID
      << N1rec(11), NamespaceRecord(13, "N9", "ns-9", "Nine", FALSE, 1),
         NamespaceRecord(14, "N9", "ns-9", "Nine", FALSE, 1) >>,
      \* records whose Server field references a record id that does not exist
      << NamespaceRecord(11, "N1", "ns-1", "One", FALSE, 9), N2rec(12) >>,
      << N1rec(11), N2rec(12), NamespaceRecord(13, "N9", "ns-9", "Nine", FALSE, 9) >>,
      \* two records declaring the same local ID, one of them out of date
      << NamespaceRecord(11, "N1", "ns-1", "Old", FALSE, 1), N1rec(13), N2rec(12) >>,
      << N1rec(11), NamespaceRecord(13, "N1", "ns-1", "Old", FALSE, 1), N2rec(12) >>,
      \* a record without the Server field
      << N1rec(11), NamespaceBare(12, "N2", "ns-2", "Two", TRUE) >>,
      \* a record without the Title field, a record without the ID field
      << N1rec(11), N2rec(12),
         [id |-> 13, fields |-> [ID |-> "N9", Name |-> "ns-9", Server |-> <<1>>]] >>,
      << N1rec(11), N2rec(12),
         [id |-> 13, fields |-> [Name |-> "ns-9", Title |-> "Nine", Server |-> <<1>>]] >> }

\* record ids a table holds or references
RidsOf(recs) ==
    UNION {{recs[i].id} \cup
           UNION {Range(recs[i].fields[n]) :
                     n \in DOMAIN recs[i].fields
                           \cap {"Server", "Workspace", "Store", "Styles", "Layers"}}
           : i \in 1..Len(recs)}

\* first record id the remote service assigns in the run: one never seen
FirstRid(tbl) ==
    LET used == UNION {RidsOf(tbl[k]) : k \in DOMAIN tbl} \cup {None}
    IN 1 + (CHOOSE x \in used : \A y \in used : y <= x)

-----------------------------------------------------------------------------
(* The state machine.                                                      *)

\* create_app._setup_airtable: the engines are constructed in order
Setup(tbl) ==
    LET s == Airtable_init("Server", tbl["Server"],
                           [k \in KindSet |-> NoEngine])
        E1 == [k \in KindSet |-> IF k = "Server" THEN s.e ELSE NoEngine]
        n == Airtable_init("Namespace", tbl["Namespace"], E1)
    IN IF s.raised # "none" THEN [raised |-> s.raised, E |-> E1]
       ELSE [raised |-> n.raised,
             E |-> [k \in KindSet |-> IF k = "Server" THEN s.e ELSE n.e]]

Init ==
    /\ table \in [KindSet -> ServerTables \cup NamespaceTables]
    /\ \/ table["Server"] \in ServerTables /\ table["Namespace"] \in {<<>>, NamespaceSynced}
       \/ table["Server"] = ServerSynced /\ table["Namespace"] \in NamespaceTables
    /\ next_rid = FirstRid(table)
    /\ engine = Setup(table).E
    /\ err = Setup(table).raised
    /\ hist = <<>>

\* one call of an operation of kind k's engine, with result o
Call(op, k, o) ==
    /\ table' = [table EXCEPT ![k] = o.R.table]
    /\ next_rid' = o.R.next_rid
    /\ engine' = [engine EXCEPT ![k] = o.e]
    /\ err' = o.raised
    /\ hist' = Append(hist,
            [op |-> op, kind |-> k, raised |-> o.raised, calls |-> o.R.calls,
             ret |-> o.ret, pre |-> table[k], post |-> o.R.table,
             before |-> engine[k], bridge |-> engine])

Remote(k) == [table |-> table[k], next_rid |-> next_rid, calls |-> <<>>]

Running == err = "none" /\ Len(hist) < MaxOps

Status(k) == Running /\ Call("status", k, status(k, engine[k], Remote(k), engine))

Load(k) == Running /\ Call("load", k, load(k, engine[k], Remote(k), engine))

Sync(k) == Running /\ Call("sync", k, sync(k, engine[k], Remote(k), engine))

Reset(k) == Running /\ Call("reset", k, reset(k, engine[k], Remote(k), engine))

Next ==
    \E k \in KindSet : Status(k) \/ Load(k) \/ Sync(k) \/ Reset(k)

Spec == Init /\ [][Next]_vars

-----------------------------------------------------------------------------
(* The `airtable sync` command, run in a fresh process on all six kinds.   *)

\* Largest number of processes in one run: the first, and those started
\* after an interruption.
MaxRuns == 2

\* the order in which _setup_airtable constructs the engines and in which
\* the sync command processes them
CliKinds == <<"Server", "Namespace", "Repository", "Style", "Layer", "LayerGroup">>

CliKindSet == {CliKinds[i] : i \in 1..Len(CliKinds)}

NoEngines == [k \in CliKindSet |-> NoEngine]

RECURSIVE _setup_airtable(_, _, _)
\* create_app._setup_airtable from the i-th engine on: [raised, E, kind], kind
\* the last engine whose constructor ran
_setup_airtable(i, tbl, E) ==
    LET k == CliKinds[i]
        c == Airtable_init(k, tbl[k], E)
        E1 == [E EXCEPT ![k] = c.e]
    IN IF c.raised # "none" \/ i = Len(CliKinds)
       THEN [raised |-> c.raised, E |-> E1, kind |-> k]
       ELSE _setup_airtable(i + 1, tbl, E1)

\* the p-th engine call of the sync command: status(), sync(), status() of
\* each kind in turn
cli_kind(p) == CliKinds[((p - 1) \div 3) + 1]

cli_op(p) == IF (p - 1) % 3 = 1 THEN "sync" ELSE "status"

RECURSIVE Replay(_, _, _)
\* the remote side after the given remote calls, in order
Replay(tbl, rid, calls) ==
    IF calls = <<>> THEN [table |-> tbl, next_rid |-> rid]
    ELSE LET c == Head(calls) IN
         CASE c.call = "batch_insert" ->
                LET ins == batch_insert(tbl, rid, c.records)
                IN Replay(ins.table, ins.next_rid, Tail(calls))
           [] c.call = "update" ->
                Replay(update(tbl, c.record_id, c.fields), rid, Tail(calls))
           [] c.call = "batch_delete" ->
                Replay(batch_delete(tbl, c.record_ids), rid, Tail(calls))

RepositoryRecord(rid, id, title, type, ws) ==
    [id |-> rid,
     fields |-> [ID |-> id, Name |-> "repo-1", Title |-> title, Type |-> type,
                 Host |-> "db-1", Database |-> "gis", Schema |-> "public",
                 Workspace |-> <<ws>>]]

\* a Styles record without the Workspace field
StyleBare(rid, id, name, title, type) ==
    [id |-> rid,
     fields |-> [ID |-> id, Name |-> name, Title |-> title, Type |-> type]]

StyleRecord(rid, id, name, title, type, ws) ==
    [id |-> rid,
     fields |-> [ID |-> id, Name |-> name, Title |-> title, Type |-> type,
                 Workspace |-> <<ws>>]]

LayerRecord(rid, id, title, type, geometry, services, ws, store, sty) ==
    [id |-> rid,
     fields |-> [ID |-> id, Name |-> "layer-1", Title |-> title, Type |-> type,
                 Geometry |-> geometry, Services |-> services,
                 Workspace |-> <<ws>>, Store |-> <<store>>, Styles |-> sty]
                @@ ("Table/View" :> "tbl-1")]

LayerGroupRecord(rid, id, title, services, ws, lyr, sty) ==
    [id |-> rid,
     fields |-> [ID |-> id, Name |-> "group-1", Title |-> title,
                 Services |-> services, Workspace |-> <<ws>>, Layers |-> lyr,
                 Styles |-> sty]]

T1rec == StyleRecord(31, "T1", "style-1", "Style one", "SLD", 11)
T2rec == StyleBare(32, "T2", "style-2", "Style two", "SLD")
L1rec == LayerRecord(41, "L1", "Layer", "Vector", "Point", <<"WMS", "WFS">>,
                     11, 21, <<31, 32>>)
G1rec == LayerGroupRecord(51, "G1", "Group", <<"WMS">>, 11, <<41>>, <<31>>)

AllEmpty == [k \in CliKindSet |-> <<>>]

\* the six tables in sync with the local collections
AllSynced ==
    [Server |-> ServerSynced,
     Namespace |-> NamespaceSynced,
     Repository |-> << RepositoryRecord(21, "R1", "Repo", "PostGIS", 11) >>,
     Style |-> << T1rec, T2rec >>,
     Layer |-> << L1rec >>,
     LayerGroup |-> << G1rec >>]

\* AllSynced with kind k's table replaced
With(k, recs) == [AllSynced EXCEPT ![k] = recs]

\* a Workspaces table holding a second record of N1 whose Server is unknown
NamespaceTwin == << N1rec(11), NamespaceRecord(13, "N1", "ns-1", "One", FALSE, 9),
                    N2rec(12) >>

CliTables ==
    { AllEmpty,
      AllSynced,
      \* only the first two kinds loaded
      [k \in CliKindSet |-> IF k \in {"Server", "Namespace"} THEN AllSynced[k] ELSE <<>>],
      \* a changed field in every kind
      [Server |-> << ServerRecord(1, "S1", "srv-old") >>,
       Namespace |-> << N1rec(11), NamespaceRecord(12, "N2", "ns-2", "Old", TRUE, 1) >>,
       Repository |-> << RepositoryRecord(21, "R1", "Old", "GeoTiff", 12) >>,
       Style |-> << StyleRecord(31, "T1", "style-1", "Old", "SLD", 11), T2rec >>,
       Layer |-> << LayerRecord(41, "L1", "Layer", "Raster", "Polygon", <<"WMS">>,
                                11, 21, <<32, 31>>) >>,
       LayerGroup |-> << LayerGroupRecord(51, "G1", "Group", <<"WMS", "WFS">>, 12,
                                          <<41>>, <<>>) >>],
      \* records of entities no longer known locally
      [Server |-> << ServerRecord(1, "S1", "srv-1"), ServerRecord(2, "S9", "srv-9") >>,
       Namespace |-> NamespaceSynced,
       Repository |-> AllSynced["Repository"],
       Style |-> << T1rec, T2rec, StyleRecord(33, "T9", "style-9", "Nine", "SLD", 11) >>,
       Layer |-> << L1rec >>,
       LayerGroup |-> << G1rec, LayerGroupRecord(52, "G9", "Nine", <<"WMS">>, 11,
                                                 <<41>>, <<31>>) >>],
      \* two records declaring S1
      With("Server", << ServerRecord(1, "S1", "srv-old"), ServerRecord(2, "S1", "srv-1") >>),
      \* a second record of N1 that does not parse; the later kinds loaded or not
      With("Namespace", NamespaceTwin),
      [k \in CliKindSet |-> IF k = "Server" THEN ServerSynced
                            ELSE IF k = "Namespace" THEN NamespaceTwin ELSE <<>>],
      \* a removed server and its removed namespace
      [With("Server", << ServerRecord(1, "S1", "srv-1"), ServerRecord(2, "S9", "srv-9") >>)
          EXCEPT !["Namespace"] =
              << N1rec(11), N2rec(12), NamespaceRecord(13, "N9", "ns-9", "Nine", FALSE, 2) >>],
      \* a removed layer still listed by a layer group
      [With("Layer", << L1rec, LayerRecord(42, "L9", "Nine", "Vector", "Point", <<"WMS">>,
                                           11, 21, <<>>) >>)
          EXCEPT !["LayerGroup"] =
              << LayerGroupRecord(51, "G1", "Group", <<"WMS">>, 11, <<41, 42>>, <<31>>) >>],
      \* a namespace given to a style that has none locally
      With("Style", << T1rec, StyleRecord(32, "T2", "style-2", "Style two", "SLD", 11) >>),
      \* the styles of a layer listed in another order
      With("Layer", << LayerRecord(41, "L1", "Layer", "Vector", "Point", <<"WMS", "WFS">>,
                                   11, 21, <<32, 31>>) >>),
      \* a layer group record without its optional Workspace
      With("LayerGroup",
           << [id |-> 51, fields |-> [ID |-> "G1", Name |-> "group-1", Title |-> "Group",
                                      Services |-> <<"WMS">>, Layers |-> <<41>>,
                                      Styles |-> <<31>>]] >>),
      \* a record without a relationship field
      With("Repository",
           << [id |-> 21, fields |-> [ID |-> "R1", Name |-> "repo-1", Title |-> "Repo",
                                      Type |-> "PostGIS"]] >>),
      \* enumeration values outside the vocabulary
      With("Server", << [ServerRecord(1, "S1", "srv-1") EXCEPT !.fields.Type = "MapServer"] >>),
      With("Repository", << RepositoryRecord(21, "R1", "Repo", "Oracle", 11) >>),
      With("Style", << T1rec, StyleBare(32, "T2", "style-2", "Style two", "CSS") >>),
      With("Layer", << LayerRecord(41, "L1", "Layer", "Mesh", "Point", <<"WMS", "WFS">>,
                                   11, 21, <<31, 32>>) >>),
      With("Layer", << LayerRecord(41, "L1", "Layer", "Vector", "Circle", <<"WMS", "WFS">>,
                                   11, 21, <<31, 32>>) >>),
      With("Layer", << L1rec,
                       LayerRecord(42, "L9", "Nine", "Vector", "Point", <<"WMS", "TMS">>,
                                   11, 21, <<>>) >>),
      With("LayerGroup", << LayerGroupRecord(51, "G1", "Group", <<"TMS">>, 11, <<41>>, <<31>>) >>),
      \* an unknown enumeration value in a record that also lacks a named field
      With("Server", << ServerRecord(1, "S1", "srv-1"),
                        [id |-> 2, fields |-> [ID |-> "S9", Type |-> "MapServer"]] >>),
      With("LayerGroup",
           << G1rec, [id |-> 52, fields |-> [ID |-> "G9", Name |-> "group-9",
                                             Services |-> <<"TMS">>]] >>) }

\* what the remote service holds when the first process starts
CliInit ==
    /\ table \in CliTables
    /\ next_rid = FirstRid(table)
    /\ engine = NoEngines
    /\ err = "none"
    /\ hist = <<>>

\* number of processes started so far
Runs == Cardinality({i \in 1..Len(hist) : hist[i].op = "setup"})

\* number of engine calls the running process has made
Pos == Len(hist) - (CHOOSE i \in 1..Len(hist) :
                       /\ hist[i].op = "setup"
                       /\ \A j \in (i + 1)..Len(hist) : hist[j].op # "setup")

InProcess == hist # <<>> /\ hist[Len(hist)].op # "interrupt" /\ err = "none"

\* a process starts: _load_data, then _setup_airtable
CliSetup ==
    /\ IF hist = <<>> THEN TRUE
       ELSE hist[Len(hist)].op = "interrupt" /\ Runs < MaxRuns
    /\ LET u == _setup_airtable(1, table, NoEngines) IN
       /\ engine' = u.E
       /\ err' = u.raised
       /\ hist' = Append(hist,
              [op |-> "setup", kind |-> u.kind, raised |-> u.raised, calls |-> <<>>,
               ret |-> NoStatus, pre |-> table[u.kind], post |-> table[u.kind],
               before |-> NoEngine, bridge |-> u.E])
    /\ UNCHANGED <<table, next_rid>>

\* the next engine call of the sync command
CliStep ==
    /\ InProcess /\ Pos < 3 * Len(CliKinds)
    /\ LET k == cli_kind(Pos + 1) IN
       IF cli_op(Pos + 1) = "sync"
       THEN Call("sync", k, sync(k, engine[k], Remote(k), engine))
       ELSE Call("status", k, status(k, engine[k], Remote(k), engine))

\* the process is killed during a sync(), after the first n of its remote calls
CliInterrupt ==
    /\ InProcess /\ Runs < MaxRuns
    /\ Pos < 3 * Len(CliKinds) /\ cli_op(Pos + 1) = "sync"
    /\ LET k == cli_kind(Pos + 1)
           o == sync(k, engine[k], Remote(k), engine)
       IN \E n \in 0..Len(o.R.calls) :
            LET R == Replay(table[k], next_rid, SubSeq(o.R.calls, 1, n)) IN
            /\ table' = [table EXCEPT ![k] = R.table]
            /\ next_rid' = R.next_rid
            /\ engine' = NoEngines
            /\ err' = "none"
            /\ hist' = Append(hist,
                   [op |-> "interrupt", kind |-> k, raised |-> "none",
                    calls |-> SubSeq(o.R.calls, 1, n), ret |-> NoStatus,
                    pre |-> table[k], post |-> R.table, before |-> engine[k],
                    bridge |-> engine])

RECURSIVE cli_sync(_, _, _, _, _)
\* the sync command from its p-th engine call on, uninterrupted:
\* [raised, table, next_rid, E, rets], rets the values the calls returned
cli_sync(p, tbl, rid, E, rets) ==
    IF p > 3 * Len(CliKinds)
    THEN [raised |-> "none", table |-> tbl, next_rid |-> rid, E |-> E, rets |-> rets]
    ELSE LET k == cli_kind(p)
             R == [table |-> tbl[k], next_rid |-> rid, calls |-> <<>>]
             o == IF cli_op(p) = "sync" THEN sync(k, E[k], R, E)
                  ELSE status(k, E[k], R, E)
             tbl1 == [tbl EXCEPT ![k] = o.R.table]
             E1 == [E EXCEPT ![k] = o.e]
         IN IF o.raised # "none"
            THEN [raised |-> o.raised, table |-> tbl1, next_rid |-> o.R.next_rid,
                  E |-> E1, rets |-> rets]
            ELSE cli_sync(p + 1, tbl1, o.R.next_rid, E1, Append(rets, o.ret))

\* a fresh process running the sync command on the remote tables tbl
cli_process(tbl, rid) ==
    LET u == _setup_airtable(1, tbl, NoEngines) IN
    IF u.raised # "none"
    THEN [raised |-> u.raised, table |-> tbl, next_rid |-> rid, E |-> u.E, rets |-> <<>>]
    ELSE cli_sync(1, tbl, rid, u.E, <<>>)

CliNext == CliSetup \/ CliStep \/ CliInterrupt

SpecCli == CliInit /\ [][CliNext]_vars

-----------------------------------------------------------------------------
(* The `airtable reset` command, run in a fresh process.                   *)

\* app.config['airtable'] as _setup_airtable leaves it: the kind of the
\* engine stored under each key
config_airtable ==
    [servers |-> "Server", namespaces |-> "Namespace", repositories |-> "Repository",
     styles |-> "Style", layers |-> "Layer", layer_groups |-> "LayerGroup"]

\* the engine calls of the reset command, in order, each with the key it
\* looks up in app.config['airtable']
reset_calls ==
    << [key |-> "servers", op |-> "reset"],
       [key |-> "servers_airtable", op |-> "status"],
       [key |-> "namespaces", op |-> "reset"],
       [key |-> "namespaces_airtable", op |-> "status"],
       [key |-> "repositories", op |-> "reset"],
       [key |-> "repositories_airtable", op |-> "status"],
       [key |-> "styles", op |-> "reset"],
       [key |-> "styles_airtable", op |-> "status"],
       [key |-> "layers", op |-> "reset"],
       [key |-> "layers_airtable", op |-> "status"],
       [key |-> "layer_groups", op |-> "reset"],
       [key |-> "layer_groups_airtable", op |-> "status"] >>

\* confirm('Do you really want to continue? ...', abort=True)
ResetConfirm ==
    /\ hist = <<>>
    /\ \E answer \in BOOLEAN :
          /\ err' = IF answer THEN "none" ELSE "Abort"
          /\ hist' = <<[op |-> "confirm", kind |-> "None",
                        raised |-> IF answer THEN "none" ELSE "Abort",
                        calls |-> <<>>, ret |-> NoStatus, pre |-> table,
                        post |-> table, before |-> NoEngine, bridge |-> engine]>>
    /\ UNCHANGED <<table, next_rid, engine>>

\* _load_data, then _setup_airtable
ResetSetup ==
    /\ Len(hist) = 1 /\ err = "none"
    /\ LET u == _setup_airtable(1, table, NoEngines) IN
       /\ engine' = u.E
       /\ err' = u.raised
       /\ hist' = Append(hist,
              [op |-> "setup", kind |-> u.kind, raised |-> u.raised, calls |-> <<>>,
               ret |-> NoStatus, pre |-> table[u.kind], post |-> table[u.kind],
               before |-> NoEngine, bridge |-> u.E])
    /\ UNCHANGED <<table, next_rid>>

\* the call the reset command makes after n engine calls:
\* app.config['airtable'][key].reset() or .status()
reset_step(n) ==
    LET c == reset_calls[n + 1] IN
    IF c.key \notin DOMAIN config_airtable
    THEN /\ err' = "KeyError"
         /\ hist' = Append(hist,
                [op |-> c.op, kind |-> c.key, raised |-> "KeyError", calls |-> <<>>,
                 ret |-> NoStatus, pre |-> <<>>, post |-> <<>>,
                 before |-> NoEngine, bridge |-> engine])
         /\ UNCHANGED <<table, next_rid, engine>>
    ELSE IF c.op = "reset"
    THEN Call("reset", config_airtable[c.key],
              reset(config_airtable[c.key], engine[config_airtable[c.key]],
                    Remote(config_airtable[c.key]), engine))
    ELSE Call("status", config_airtable[c.key],
              status(config_airtable[c.key], engine[config_airtable[c.key]],
                     Remote(config_airtable[c.key]), engine))

\* the next engine call of the reset command
ResetStep ==
    /\ Len(hist) >= 2 /\ err = "none"
    /\ Len(hist) - 2 < Len(reset_calls)
    /\ reset_step(Len(hist) - 2)

ResetNext == ResetConfirm \/ ResetSetup \/ ResetStep

SpecReset == CliInit /\ [][ResetNext]_vars

-----------------------------------------------------------------------------
(* The adapters on their own: a local entity is wrapped, converted to      *)
(* remote fields, a record carrying those fields is parsed back with the   *)
(* same sibling bridges, and the two adapters are compared.                *)

\* local entities the adapters are applied to, by kind
Entities(k) ==
    CASE k = "Server" ->
            {[servers[1] EXCEPT !.version = v] : v \in {"2.0", "2.1"}}
      [] k = "Namespace" ->
            {[namespaces[1] EXCEPT !.isolated = i, !.title = t] :
                i \in BOOLEAN, t \in {"One", "Two"}}
      [] k = "Repository" ->
            {[repositories[1] EXCEPT !.type = t, !.hostname = h, !.namespace = n] :
                t \in {"POSTGIS", "IMAGEMOSAIC"}, h \in {"db-1", NoRef},
                n \in {"N1", "N2"}}
      [] k = "Style" ->
            {[styles[1] EXCEPT !.namespace = n] : n \in {NoRef, "N1", "N2"}}
      [] k = "Layer" ->
            {[layers[1] EXCEPT !.geometry_type = g, !.services = sv,
                               !.table_view = tv, !.styles = sy] :
                g \in {NoRef, "POINT", "MULTIPOLYGON"},
                sv \in {<<>>, <<"WMS", "WFS">>},
                tv \in {NoRef, "tbl-1"},
                sy \in {<<>>, <<"T1">>, <<"T2", "T1">>}}
      [] k = "LayerGroup" ->
            {[layer_groups[1] EXCEPT !.namespace = n, !.services = sv,
                                     !.layers = ly, !.styles = sy] :
                n \in {NoRef, "N1"}, sv \in {<<>>, <<"WMS">>},
                ly \in {<<>>, <<"L1">>},
                sy \in {<<>>, <<"T1">>, <<"T2", "T1">>}}

\* how the record parsed back differs from the fields sent: not at all, in
\* its Name, or by lacking one relationship field
Changes(k) ==
    {"none", "Name"}
        \cup (IF k = "Server" THEN {}
              ELSE IF k = "Namespace" THEN {"Server"}
              ELSE IF k \in {"Repository", "Style"} THEN {"Workspace"}
              ELSE IF k = "Layer" THEN {"Workspace", "Store", "Styles"}
              ELSE {"Workspace", "Layers", "Styles"})

\* the remote fields f as the remote record carries them
Changed(f, c) ==
    IF c = "none" THEN f
    ELSE IF c = "Name" THEN [f EXCEPT !.Name = "renamed"]
    ELSE [n \in DOMAIN f \ {c} |-> f[n]]

\* sibling engines in which every local entity is correlated with a record
Bridges == _setup_airtable(1, AllSynced, NoEngines).E

AdaptInit ==
    /\ \E k \in CliKindSet : \E item \in Entities(k) : \E c \in Changes(k) :
          table = [kind |-> k, item |-> item, change |-> c]
    /\ next_rid = FirstRid(AllSynced)
    /\ engine = Bridges
    /\ err = "none"
    /\ hist = <<>>

AdaptStep(n, entry, raised) ==
    /\ err = "none" /\ Len(hist) = n
    /\ hist' = Append(hist, entry)
    /\ err' = raised
    /\ UNCHANGED <<table, next_rid, engine>>

\* ItemClassAirtable(item=<local entity>, **kwargs)
AdaptOutbound ==
    AdaptStep(0, [op |-> "outbound", raised |-> "none",
                  item |-> ItemClassAirtable_outbound(table.kind, table.item, engine)],
              "none")

\* item.airtable_fields()
AdaptFields ==
    LET f == airtable_fields(table.kind, hist[1].item, engine) IN
    AdaptStep(1, [op |-> "airtable_fields", raised |-> f.raised, fields |-> f.fields],
              f.raised)

\* ItemClassAirtable(item=<record carrying the fields>, **kwargs)
AdaptInbound ==
    LET rec == [id |-> next_rid, fields |-> Changed(hist[2].fields, table.change)]
        p == ItemClassAirtable_inbound(table.kind, rec, engine)
    IN AdaptStep(2, [op |-> "inbound", raised |-> p.raised, item |-> p.item,
                     record |-> rec],
                 p.raised)

\* <local adapter> == <parsed adapter>
AdaptCompare ==
    LET c == NotEqual(table.kind, hist[1].item, hist[3].item, engine) IN
    AdaptStep(3, [op |-> "eq", raised |-> IF c \in {"eq", "ne"} THEN "none" ELSE c,
                  result |-> c],
              IF c \in {"eq", "ne"} THEN "none" ELSE c)

AdaptNext == AdaptOutbound \/ AdaptFields \/ AdaptInbound \/ AdaptCompare

SpecAdapters == AdaptInit /\ [][AdaptNext]_vars

-----------------------------------------------------------------------------
(* One engine constructed with or without the sibling engine of its        *)
(* keyword arguments.  E holds the engines passed as **kwargs: kind j was  *)
(* supplied iff j \in DOMAIN E.                                            *)

\* Largest number of calls made on the engine after its construction.
MaxKwargsCalls == 2

\* the kinds with one sibling engine, read last by their inbound adapter
KwargsKinds == {"Namespace", "Repository", "Style"}

\* the sibling engine kind k's adapter reads from kwargs
kwargs_sibling(k) == IF k = "Namespace" THEN "Server" ELSE "Namespace"

\* the remote field whose presence makes the inbound adapter read it
kwargs_field(k) == IF k = "Namespace" THEN "Server" ELSE "Workspace"

\* kwargs with an empty engine for every kind that is not supplied; used
\* only where the adapter does not read the absent kind
Fill(E) == [j \in CliKindSet |-> IF j \in DOMAIN E THEN E[j] ELSE NoEngine]

\* ItemClassAirtable(item=<local entity>, **kwargs): kwargs['..._airtable']
\* raises KeyError when absent; a Style reads it only if it has a namespace
outbound_kwargs(k, item, E) ==
    IF kwargs_sibling(k) \notin DOMAIN E /\ (k = "Style" => item.namespace # NoRef)
    THEN [raised |-> "KeyError", item |-> NoItem]
    ELSE [raised |-> "none", item |-> ItemClassAirtable_outbound(k, item, Fill(E))]

\* the record without its relationship field
kwargs_bare(k, rec) ==
    [rec EXCEPT !.fields = [n \in DOMAIN @ \ {kwargs_field(k)} |-> @[n]]]

\* the inbound adapter once the fields before the relationship gave p0
inbound_kwargs_raise(p0) ==
    IF p0.raised # "none" THEN p0
    ELSE [raised |-> "RuntimeError", item |-> NoItem]

\* ItemClassAirtable(item=<remote record>, **kwargs): if the relationship
\* field is present and '..._airtable' not in kwargs: raise RuntimeError
inbound_kwargs(k, rec, E) ==
    IF kwargs_sibling(k) \in DOMAIN E \/ kwargs_field(k) \notin DOMAIN rec.fields
    THEN ItemClassAirtable_inbound(k, rec, Fill(E))
    ELSE inbound_kwargs_raise(ItemClassAirtable_inbound(k, kwargs_bare(k, rec), Fill(E)))

\* positions of the fetched records whose adapter raises RuntimeError
kwargs_unread(k, recs, E) ==
    {i \in 1..Len(recs) :
        /\ "ID" \in DOMAIN recs[i].fields
        /\ inbound_kwargs(k, recs[i], E).raised = "RuntimeError"}

\* Airtable.stat when the loop over the records before such a record gave r
stat_kwargs_raise(r) ==
    IF r.raised # "none" THEN r ELSE [raised |-> "RuntimeError", e |-> r.e]

\* Airtable.stat with the kwargs E: RuntimeError is not caught by the
\* except KeyError of the loop
stat_kwargs(k, e, recs, E) ==
    IF kwargs_unread(k, recs, E) = {}
    THEN stat(k, e, recs, Fill(E))
    ELSE stat_kwargs_raise(
            stat_remote(k,
                SubSeq(recs, 1,
                       (CHOOSE i \in kwargs_unread(k, recs, E) :
                           \A j \in kwargs_unread(k, recs, E) : i <= j) - 1),
                [e EXCEPT !.items_airtable = <<>>, !.missing = <<>>,
                          !.current = <<>>, !.outdated = <<>>, !.orphaned = <<>>],
                Fill(E)))

\* Airtable.__init__ with the local collection its and the kwargs E
Airtable_init_kwargs(k, its, recs, E) ==
    IF \E i \in 1..Len(its) : outbound_kwargs(k, its[i], E).raised # "none"
    THEN [raised |-> "KeyError", e |-> NoEngine]
    ELSE stat_kwargs(k,
            [NoEngine EXCEPT !.items_local =
                [i \in 1..Len(its) |-> outbound_kwargs(k, its[i], E).item]],
            recs, E)

\* the local collections an engine is constructed on: none, every entity,
\* and for styles the one without namespace
kwargs_items(k) ==
    {<<>>, items(k)} \cup (IF k = "Style" THEN {<<styles[2]>>} ELSE {})

\* the remote tables: empty, in sync, and in sync without the relationship
\* field
kwargs_tables(k) ==
    {<<>>, AllSynced[k],
     [i \in 1..Len(AllSynced[k]) |-> kwargs_bare(k, AllSynced[k][i])]}

\* the kind of the engine under construction
KwargsKind == CHOOSE k \in DOMAIN table : TRUE

KwargsInit ==
    /\ \E k \in KwargsKinds : \E recs \in kwargs_tables(k) : table = (k :> recs)
    /\ \E supplied \in BOOLEAN :
          engine = IF supplied
                   THEN (kwargs_sibling(KwargsKind) :> Bridges[kwargs_sibling(KwargsKind)])
                   ELSE <<>>
    /\ next_rid = FirstRid(AllSynced)
    /\ err = "none"
    /\ hist = <<>>

\* XAirtable(airtable=..., items, **kwargs)
KwargsConstruct ==
    /\ hist = <<>>
    /\ \E its \in kwargs_items(KwargsKind) :
          LET c == Airtable_init_kwargs(KwargsKind, its, table[KwargsKind], engine) IN
          /\ engine' = IF c.raised = "none" THEN (KwargsKind :> c.e) @@ engine
                       ELSE engine
          /\ err' = c.raised
          /\ hist' = <<[op |-> "construct", kind |-> KwargsKind, raised |-> c.raised,
                        calls |-> <<>>, ret |-> NoStatus, pre |-> table[KwargsKind],
                        post |-> table[KwargsKind], before |-> NoEngine,
                        bridge |-> engine]>>
    /\ UNCHANGED <<table, next_rid>>

KwargsRunning == hist # <<>> /\ err = "none" /\ Len(hist) <= MaxKwargsCalls

\* another client of the remote service replaces the table
KwargsWrite ==
    /\ KwargsRunning
    /\ \E recs \in kwargs_tables(KwargsKind) \ {table[KwargsKind]} :
          /\ table' = (KwargsKind :> recs)
          /\ hist' = Append(hist,
                 [op |-> "write", kind |-> KwargsKind, raised |-> "none",
                  calls |-> <<>>, ret |-> NoStatus, pre |-> table[KwargsKind],
                  post |-> recs, before |-> engine[KwargsKind], bridge |-> engine])
    /\ UNCHANGED <<next_rid, engine, err>>

KwargsStatus ==
    /\ KwargsRunning
    /\ Call("status", KwargsKind,
            status_return(stat_kwargs(KwargsKind, engine[KwargsKind],
                                      table[KwargsKind], engine),
                          Remote(KwargsKind)))

KwargsLoad ==
    /\ KwargsRunning
    /\ Call("load", KwargsKind,
            load(KwargsKind, engine[KwargsKind], Remote(KwargsKind), Fill(engine)))

KwargsSync ==
    /\ KwargsRunning
    /\ Call("sync", KwargsKind,
            sync(KwargsKind, engine[KwargsKind], Remote(KwargsKind), Fill(engine)))

KwargsNext ==
    KwargsConstruct \/ KwargsWrite \/ KwargsStatus \/ KwargsLoad \/ KwargsSync

SpecKwargs == KwargsInit /\ [][KwargsNext]_vars

-----------------------------------------------------------------------------
(* Lookups by label in the local collections.  A collection is the list    *)
(* of its values in iteration order; an item is [label, namespace], the    *)
(* namespace given by its label, NoRef when the item has none.             *)

\* Largest number of items in a collection.
MaxItems == 2

Labels == {"roads", "rivers"}

NamespaceLabels == {"ns-1", "ns-2"}

RECURSIVE get_by_label(_, _)
\* Namespaces.get_by_label, Repositories.get_by_label: [raised, found, item]
get_by_label(coll, label) ==
    IF coll = <<>> THEN [raised |-> "none", found |-> FALSE, item |-> <<>>]
    ELSE IF Head(coll).label = label
    THEN [raised |-> "none", found |-> TRUE, item |-> Head(coll)]
    ELSE get_by_label(Tail(coll), label)

RECURSIVE get_by_label_namespace(_, _, _)
\* Styles.get_by_label, Layers.get_by_label: [raised, found, item];
\* item.relationships['namespaces'].label raises AttributeError on None
get_by_label_namespace(coll, label, namespace_label) ==
    IF coll = <<>> THEN [raised |-> "none", found |-> FALSE, item |-> <<>>]
    ELSE IF Head(coll).label # label
    THEN get_by_label_namespace(Tail(coll), label, namespace_label)
    ELSE IF namespace_label = NoRef
    THEN [raised |-> "none", found |-> TRUE, item |-> Head(coll)]
    ELSE IF Head(coll).namespace = NoRef
    THEN [raised |-> "AttributeError", found |-> FALSE, item |-> <<>>]
    ELSE IF Head(coll).namespace = namespace_label
    THEN [raised |-> "none", found |-> TRUE, item |-> Head(coll)]
    ELSE get_by_label_namespace(Tail(coll), label, namespace_label)

\* the collection classes with a lookup by label
LabelClasses == {"Namespaces", "Repositories", "Styles", "Layers"}

\* the items a collection of class c may hold: a namespace has no
\* namespace of its own, a repository has one, a style or layer may
LabelItems(c) ==
    [label : Labels,
     namespace : IF c = "Namespaces" THEN {NoRef}
                 ELSE IF c = "Repositories" THEN NamespaceLabels
                 ELSE NamespaceLabels \cup {NoRef}]

LabelCollections(c) ==
    UNION {[1..n -> LabelItems(c)] : n \in 0..MaxItems}

LabelInit ==
    /\ \E c \in LabelClasses : \E coll \in LabelCollections(c) :
       \E label \in Labels :
       \E namespace_label \in (IF c \in {"Styles", "Layers"}
                               THEN NamespaceLabels \cup {NoRef} ELSE {NoRef}) :
          table = [class |-> c, coll |-> coll, label |-> label,
                   namespace_label |-> namespace_label]
    /\ next_rid = None
    /\ engine = <<>>
    /\ err = "none"
    /\ hist = <<>>

LabelReturn(o) ==
    /\ hist = <<>>
    /\ hist' = <<[op |-> "get_by_label", raised |-> o.raised, found |-> o.found,
                  item |-> o.item]>>
    /\ err' = o.raised
    /\ UNCHANGED <<table, next_rid, engine>>

\* Namespaces.get_by_label(label), Repositories.get_by_label(label)
LabelLookup ==
    /\ table.class \in {"Namespaces", "Repositories"}
    /\ LabelReturn(get_by_label(table.coll, table.label))

\* Styles.get_by_label(label, namespace_label), Layers.get_by_label(...)
LabelLookupNamespace ==
    /\ table.class \in {"Styles", "Layers"}
    /\ LabelReturn(get_by_label_namespace(table.coll, table.label,
                                          table.namespace_label))

LabelNext == LabelLookup \/ LabelLookupNamespace

SpecLabels == LabelInit /\ [][LabelNext]_vars

-----------------------------------------------------------------------------
(* Vocabulary of the properties.                                           *)

Last == hist[Len(hist)]

LocalIds(k) == {items(k)[i].id : i \in 1..Len(items(k))}

\* number of occurrences of x in the list s
Occ(s, x) == Cardinality({i \in 1..Len(s) : s[i] = x})

\* kind k's engine has just completed a stat(): in its constructor, or in
\* a status() call that returned
StatDone(k) ==
    \/ hist = <<>> /\ err = "none"
    \/ hist # <<>> /\ Last.op = "status" /\ Last.kind = k /\ Last.raised = "none"

\* the record declares ID = id and the inbound adapter is built from it
Parses(k, r, E, id) ==
    /\ "ID" \in DOMAIN r.fields
    /\ r.fields.ID = id
    /\ ItemClassAirtable_inbound(k, r, E).raised = "none"

Parsed(k, r, E) == ItemClassAirtable_inbound(k, r, E).item

\* positions of the fetched records that parse and declare ID = id
ParsedAt(k, recs, E, id) == {i \in 1..Len(recs) : Parses(k, recs[i], E, id)}

Max(S) == CHOOSE x \in S : \A y \in S : y <= x

Wrapper(k, id) == GetKey(engine[k].items_local, id)

\* C1 as stated: after stat(), a local id L is missing iff no fetched record
\* declaring ID = L parsed, outdated iff some such record is unequal to the
\* local adapter, current iff some such record is equal to it.
C1_AnyParsedRecord ==
    \A k \in KindSet : StatDone(k) =>
        \A L \in LocalIds(k) :
            LET at == ParsedAt(k, table[k], engine, L)
                cmp(i) == NotEqual(k, Wrapper(k, L), Parsed(k, table[k][i], engine), engine)
            IN /\ Occ(engine[k].missing, L) > 0 <=> at = {}
               /\ Occ(engine[k].outdated, L) > 0 <=> \E i \in at : cmp(i) = "ne"
               /\ Occ(engine[k].current, L) > 0 <=> \E i \in at : cmp(i) = "eq"

\* C1 (amended): after stat(), a local id L is missing iff no fetched record
\* declaring ID = L parsed; otherwise it is outdated iff the local adapter is
\* unequal to the LAST such record in fetch order, and current iff it is
\* equal to that last record.
C1_LastParsedRecord ==
    \A k \in KindSet : StatDone(k) =>
        \A L \in LocalIds(k) :
            LET at == ParsedAt(k, table[k], engine, L)
                cmp == NotEqual(k, Wrapper(k, L), Parsed(k, table[k][Max(at)], engine), engine)
            IN /\ Occ(engine[k].missing, L) > 0 <=> at = {}
               /\ Occ(engine[k].outdated, L) > 0 <=> (at # {} /\ cmp = "ne")
               /\ Occ(engine[k].current, L) > 0 <=> (at # {} /\ cmp = "eq")

\* a status() returned on a table holding two parsed records of one local
\* id, the first equal to the local adapter and the last not, and listed
\* that id outdated
C1_Witness ==
    /\ hist # <<>> /\ Last.op = "status" /\ Last.raised = "none"
    /\ \E L \in LocalIds(Last.kind) :
          /\ Cardinality(ParsedAt(Last.kind, table[Last.kind], engine, L)) > 1
          /\ Occ(Last.ret.outdated, L) = 1

\* C2: when status() returns, missing, current and outdated together hold
\* every local id exactly once.
C2_Partition ==
    \A k \in KindSet :
        (hist # <<>> /\ Last.op = "status" /\ Last.kind = k /\ Last.raised = "none") =>
            /\ \A L \in LocalIds(k) :
                  Occ(Last.ret.missing \o Last.ret.current \o Last.ret.outdated, L) = 1
            /\ Range(Last.ret.missing \o Last.ret.current \o Last.ret.outdated)
                  \subseteq LocalIds(k)

\* a status() returned two non-empty lists among the three
C2_Witness ==
    /\ hist # <<>> /\ Last.op = "status" /\ Last.raised = "none"
    /\ Len(items(Last.kind)) > 1
    /\ \/ Last.ret.missing # <<>> /\ Last.ret.outdated # <<>>
       \/ Last.ret.current # <<>> /\ Last.ret.outdated # <<>>

\* C3: after stat(), no identifier is both in orphaned and in one of
\* missing, current, outdated.
C3_OrphanedDisjoint ==
    \A k \in KindSet : StatDone(k) =>
        Range(engine[k].orphaned)
            \cap Range(engine[k].missing \o engine[k].current \o engine[k].outdated)
        = {}

\* entry i of the log is a call of op on kind k's engine
Op(i, op, k) == i \in 1..Len(hist) /\ hist[i].op = op /\ hist[i].kind = k

Ok(i) == hist[i].raised = "none"

\* the classification the call at position i works from was computed just
\* before it: by the constructor, or by a status() that returned
FreshStat(i, k) == i = 1 \/ (Op(i - 1, "status", k) /\ Ok(i - 1))

AllIds(k) == [i \in 1..Len(items(k)) |-> items(k)[i].id]

AllCurrent(k, ret) ==
    /\ ret.current = AllIds(k)
    /\ ret.outdated = <<>> /\ ret.missing = <<>> /\ ret.orphaned = <<>>

\* every kind that k references is in sync as its engine E[..] sees it
ReferencedCurrent(k, E) ==
    k = "Namespace" =>
        /\ E["Server"].current = AllIds("Server")
        /\ E["Server"].outdated = <<>> /\ E["Server"].missing = <<>>
        /\ E["Server"].orphaned = <<>>

\* C4: sync() right after a stat(), then status(): every local id current,
\* the other lists empty; a second sync() and status(): the same lists.
C4_SyncIdempotent ==
    \A k \in KindSet : \A i \in 1..Len(hist) :
        (Op(i, "sync", k) /\ FreshStat(i, k) /\ ReferencedCurrent(k, hist[i].bridge)) =>
            /\ Ok(i)
            /\ Op(i + 1, "status", k) =>
                  /\ Ok(i + 1)
                  /\ AllCurrent(k, hist[i + 1].ret)
                  /\ (Op(i + 2, "sync", k) /\ Op(i + 3, "status", k)) =>
                        /\ Ok(i + 2) /\ Ok(i + 3)
                        /\ hist[i + 3].ret = hist[i + 1].ret

\* C5: every fetched record whose declared ID matches no local entity is
\* listed in orphaned only, and is gone from the table after sync().
C5_OrphansRemoved ==
    \A k \in KindSet : \A i \in 1..Len(hist) :
        (Op(i, "status", k) /\ Ok(i)) =>
            \A j \in 1..Len(hist[i].pre) :
                LET r == hist[i].pre[j] IN
                ("ID" \in DOMAIN r.fields /\ r.fields.ID \notin LocalIds(k)) =>
                    /\ Occ(hist[i].ret.orphaned, r.fields.ID) > 0
                    /\ Occ(hist[i].ret.missing \o hist[i].ret.current
                             \o hist[i].ret.outdated, r.fields.ID) = 0
                    /\ Op(i + 1, "sync", k) =>
                          \A m \in 1..Len(hist[i + 1].post) :
                              hist[i + 1].post[m].id # r.id

\* adapter attribute -> remote field name, for the scalar fields of kind k
ScalarFields(k) ==
    IF k = "Server"
    THEN [name |-> "Name", hostname |-> "Hostname", type |-> "Type",
          version |-> "Version"]
    ELSE [name |-> "Name", title |-> "Title", isolated |-> "Isolated"]

\* positions of the records declaring ID = id
DeclaredAt(recs, id) ==
    {i \in 1..Len(recs) : "ID" \in DOMAIN recs[i].fields /\ recs[i].fields.ID = id}

\* scalar attributes in which the adapters a and b differ
Differing(k, a, b) == {f \in DOMAIN ScalarFields(k) : a[f] # b[f]}

\* at the status() logged at position i, local id L has exactly one remote
\* record, which parses, refers to the same siblings and differs from the
\* local adapter in exactly one scalar field
OneFieldChanged(k, i, L) ==
    LET recs == hist[i].pre
        E == hist[i].bridge
        loc == GetKey(hist[i].before.items_local, L)
    IN /\ Cardinality(DeclaredAt(recs, L)) = 1
       /\ \A j \in DeclaredAt(recs, L) :
            /\ Parses(k, recs[j], E, L)
            /\ Cardinality(Differing(k, loc, Parsed(k, recs[j], E))) = 1
            /\ k = "Namespace" => Parsed(k, recs[j], E).server = loc.server

\* C6: a local entity and its remote record differ in exactly one scalar
\* field: status() lists it outdated; after sync() the record with that
\* remote id holds the local value; the next status() lists it current.
C6_OutdatedRepaired ==
    \A k \in KindSet : \A i \in 1..Len(hist) : \A L \in LocalIds(k) :
        (Op(i, "status", k) /\ Ok(i) /\ OneFieldChanged(k, i, L)) =>
            LET j == CHOOSE j \in DeclaredAt(hist[i].pre, L) : TRUE
                rid == hist[i].pre[j].id
                loc == GetKey(hist[i].before.items_local, L)
                d == CHOOSE f \in Differing(k, loc, Parsed(k, hist[i].pre[j], hist[i].bridge)) : TRUE
                want == airtable_fields(k, loc, hist[i].bridge).fields[ScalarFields(k)[d]]
            IN /\ Occ(hist[i].ret.outdated, L) = 1
               /\ (Op(i + 1, "sync", k) /\ Ok(i + 1)) =>
                    /\ \E m \in 1..Len(hist[i + 1].post) :
                          /\ hist[i + 1].post[m].id = rid
                          /\ hist[i + 1].post[m].fields[ScalarFields(k)[d]] = want
                    /\ Op(i + 2, "status", k) =>
                          /\ Ok(i + 2)
                          /\ Occ(hist[i + 2].ret.current, L) = 1

\* an outdated id was repaired by sync() and is reported current
C6_Witness ==
    \E k \in KindSet : \E L \in LocalIds(k) :
        /\ Len(hist) = 3
        /\ Op(1, "status", k) /\ Ok(1) /\ OneFieldChanged(k, 1, L)
        /\ Op(2, "sync", k) /\ Ok(2)
        /\ Op(3, "status", k) /\ Occ(hist[3].ret.current, L) = 1

\* position of a remote call in the order create, update, delete
Rank(c) ==
    IF c.call = "batch_insert" THEN 1 ELSE IF c.call = "update" THEN 2 ELSE 3

\* C7: the remote calls of one sync() are: the batch create of the missing
\* entities, then one update per outdated entity keyed by its remote id,
\* then one batch delete; no call is issued out of that order.
C7_CallOrder ==
    (hist # <<>> /\ Last.op = "sync") =>
        LET c == Last.calls
            b == Last.before
        IN /\ \A x \in 1..Len(c) : \A y \in 1..Len(c) :
                 x < y => /\ Rank(c[x]) <= Rank(c[y])
                          /\ Rank(c[x]) = Rank(c[y]) => c[x].call = "update"
           /\ Last.raised = "none" =>
                 /\ Len(c) = Len(b.outdated) + 2
                 /\ c[1].call = "batch_insert"
                 /\ Len(c[1].records) = Len(b.missing)
                 /\ \A x \in 1..Len(b.outdated) :
                       /\ c[1 + x].call = "update"
                       /\ c[1 + x].record_id
                            = GetKey(b.items_local, b.outdated[x]).airtable_id
                       /\ c[1 + x].fields.ID = b.outdated[x]
                 /\ c[Len(c)].call = "batch_delete"
                 /\ Len(c[Len(c)].record_ids) = Len(b.orphaned)

\* a sync() that created, updated and deleted
C7_Witness ==
    /\ hist # <<>> /\ Last.op = "sync" /\ Last.raised = "none"
    /\ Last.before.missing # <<>> /\ Last.before.outdated # <<>>
    /\ Last.before.orphaned # <<>>
    /\ Len(Last.calls) = 3

\* C8: load() issues a single batch create holding one record per id of
\* missing, in list order, each with field ID equal to that id; it leaves
\* the four lists, the remote-side collection and the id bridge unchanged.
C8_LoadFrame ==
    (hist # <<>> /\ Last.op = "load" /\ Last.raised = "none") =>
        LET c == Last.calls
            b == Last.before
        IN /\ Len(c) = 1
           /\ c[1].call = "batch_insert"
           /\ Len(c[1].records) = Len(b.missing)
           /\ \A x \in 1..Len(b.missing) : c[1].records[x].ID = b.missing[x]
           /\ engine[Last.kind] = b

\* a load() that created two records
C8_Witness ==
    /\ hist # <<>> /\ Last.op = "load" /\ Last.raised = "none"
    /\ Len(Last.before.missing) = 2
    /\ Len(Last.post) = Len(Last.pre) + 2

\* the remote ids of the records of the Servers table declaring ID = id
ServerRids(id) ==
    {table["Server"][i].id : i \in DeclaredAt(table["Server"], id)}

\* every kind that k references is synced: its engine reports all current
\* and each wrapper carries the remote id of its record in the table
ReferencedSynced(k) ==
    k = "Namespace" =>
        /\ ReferencedCurrent(k, engine)
        /\ \A id \in LocalIds("Server") :
              Wrapper("Server", id).airtable_id \in ServerRids(id)

\* the last n log entries are calls on kind k's engine, the first of them
\* a status() that returned on an empty table
FromEmpty(k, n) ==
    /\ Len(hist) >= n
    /\ Op(Len(hist) - n + 1, "status", k) /\ Ok(Len(hist) - n + 1)
    /\ hist[Len(hist) - n + 1].pre = <<>>
    /\ ReferencedSynced(k)

C10_ResetDeletesAllFetched ==
    \A k \in KindSet :
        (Op(Len(hist), "reset", k) /\ FreshStat(Len(hist), k)) =>
            /\ Last.raised = "none"
            /\ \A j \in 1..Len(Last.pre) :
                  /\ \E c \in 1..Len(Last.calls) :
                        /\ Last.calls[c].call = "batch_delete"
                        /\ Last.pre[j].id \in Range(Last.calls[c].record_ids)
                  /\ \A m \in 1..Len(Last.post) : Last.post[m].id # Last.pre[j].id

\* recs without its j-th record
Without(recs, j) == SubSeq(recs, 1, j - 1) \o SubSeq(recs, j + 1, Len(recs))

\* the fields an inbound adapter of kind k reads unconditionally
NamedFields(k) ==
    CASE k = "Server" -> {"ID", "Name", "Hostname", "Type", "Version"}
      [] k \in {"Namespace", "LayerGroup"} -> {"ID", "Name", "Title"}
      [] OTHER -> {"ID", "Name", "Title", "Type"}

\* relationship field of kind k -> the kind it references
RelFields(k) ==
    CASE k = "Server" -> [n \in {} |-> "Server"]
      [] k = "Namespace" -> [Server |-> "Server"]
      [] k \in {"Repository", "Style"} -> [Workspace |-> "Namespace"]
      [] k = "Layer" ->
            [Workspace |-> "Namespace", Store |-> "Repository", Styles |-> "Style"]
      [] k = "LayerGroup" ->
            [Workspace |-> "Namespace", Layers |-> "Layer", Styles |-> "Style"]

Malformed(k, r) == ~(NamedFields(k) \subseteq DOMAIN r.fields)

\* a relationship field of r holds a remote id the sibling bridge does not know
Dangling(k, r, E) ==
    \E n \in DOMAIN RelFields(k) :
        /\ n \in DOMAIN r.fields
        /\ \E i \in 1..Len(r.fields[n]) :
              get_by_airtable_id(E[RelFields(k)[n]], r.fields[n][i]).raised # "none"

\* got is the outcome of stat() on recs, St(x) the outcome of the same stat()
\* on the table x: every malformed or dangling record is put in orphaned and
\* changes nothing else
Isolated(k, recs, E, got, St(_)) ==
    \A j \in 1..Len(recs) :
        LET r == recs[j]
            ref == St(Without(recs, j))
        IN ((Malformed(k, r) \/ Dangling(k, r, E)) /\ ref.raised = "none") =>
              /\ got.raised = "none"
              /\ "ID" \in DOMAIN r.fields
              /\ got.e.missing = ref.e.missing
              /\ got.e.current = ref.e.current
              /\ got.e.outdated = ref.e.outdated
              /\ got.e.items_airtable = ref.e.items_airtable
              /\ \A x \in Range(got.e.orphaned) \cup Range(ref.e.orphaned) :
                    Occ(got.e.orphaned, x)
                        = Occ(ref.e.orphaned, x) + (IF x = r.fields.ID THEN 1 ELSE 0)

\* C11: stat() (in the constructor, or in status()) does not abort on a
\* malformed or dangling record: it lists the record's ID once more in
\* orphaned and classifies everything else as it does without that record.
C11_BadRecordIsolated ==
    /\ hist = <<>> =>
          LET St(x) == Airtable_init("Namespace", x, engine)
          IN Isolated("Namespace", table["Namespace"], engine,
                      St(table["Namespace"]), St)
    /\ (hist # <<>> /\ Last.op = "status") =>
          LET St(x) == stat(Last.kind, Last.before, x, Last.bridge)
          IN Isolated(Last.kind, Last.pre, Last.bridge,
                      [raised |-> Last.raised, e |-> engine[Last.kind]], St)

\* the values of an enumeration
Values(enum) == {enum[n] : n \in DOMAIN enum}

\* enumeration field of kind k -> its remote display vocabulary
EnumFields(k) ==
    CASE k = "Server" -> [Type |-> Values(ServerTypeAirtable)]
      [] k = "Namespace" -> [n \in {} |-> {}]
      [] k = "Repository" -> [Type |-> Values(RepositoryTypeAirtable)]
      [] k = "Style" -> [Type |-> Values(StyleTypeAirtable)]
      [] k = "Layer" -> [Type |-> Values(LayerTypeAirtable),
                         Geometry |-> Values(LayerGeometryAirtable),
                         Services |-> Values(LayerServiceAirtable)]
      [] k = "LayerGroup" -> [Services |-> Values(LayerGroupServiceAirtable)]

\* the enumeration fields of r that hold a value outside the vocabulary
BadEnums(k, r) ==
    {n \in DOMAIN EnumFields(k) \cap DOMAIN r.fields :
        \E v \in (IF n = "Services" THEN Range(r.fields[n]) ELSE {r.fields[n]}) :
            v \notin EnumFields(k)[n]}

\* the fields an inbound adapter reads before its enumeration fields
ReadBeforeEnums(k) == NamedFields(k) \ {"Version"}

CliIndex(k) == CHOOSE i \in 1..Len(CliKinds) : CliKinds[i] = k

\* how the stat() of kind k ended in the step just taken: in its constructor
\* during setup, or in a status() call; "notrun" if the step ran none
StatOutcome(k) ==
    IF hist = <<>> THEN "notrun"
    ELSE IF Last.op = "setup"
    THEN (IF k = Last.kind THEN Last.raised
          ELSE IF CliIndex(k) < CliIndex(Last.kind) THEN "none" ELSE "notrun")
    ELSE IF Last.op = "status" /\ Last.kind = k THEN Last.raised
    ELSE "notrun"

\* no record before the j-th stops the pass
PassReaches(k, recs, j) ==
    \A i \in 1..(j - 1) :
        /\ "ID" \in DOMAIN recs[i].fields
        /\ ItemClassAirtable_inbound(k, recs[i], engine).raised \in {"none", "KeyError"}

\* the stat() of kind k failed on the j-th record of its table: an error
\* propagated, no adapter was kept for the record
FailsOn(k, j) ==
    /\ StatOutcome(k) # "none"
    /\ PassReaches(k, table[k], j) => StatOutcome(k) = "ValueError"
    /\ \A i \in 1..Len(engine[k].items_airtable) :
          engine[k].items_airtable[i].airtable_id # table[k][j].id

AfterFreshStat ==
    LET k == Last.kind
        s == stat(k, Last.before, Last.pre, Last.bridge)
        R == [table |-> Last.pre, next_rid |-> next_rid, calls |-> <<>>]
    IN IF s.raised # "none"
       THEN [raised |-> s.raised, calls |-> <<>>]
       ELSE LET o == IF Last.op = "sync" THEN sync(k, s.e, R, Last.bridge)
                     ELSE reset(k, s.e, R, Last.bridge)
            IN [raised |-> o.raised, calls |-> o.R.calls]

\* C13: sync() and reset() issue the creates, updates and deletes computed
\* from the remote table as it is when the call starts (as if stat() were
\* re-run first), not from the classification an earlier call left.
C13_ClassifiesAtCallStart ==
    (hist # <<>> /\ Last.op \in {"sync", "reset"}) =>
        /\ Last.raised = AfterFreshStat.raised
        /\ Last.calls = AfterFreshStat.calls

\* C14: after a stat(), get_by_airtable_id(r) succeeds only for a remote id
\* r carried by a record of the table just fetched.
C14_BridgeRebuilt ==
    \A k \in KindSet :
        (hist # <<>> /\ Last.op = "status" /\ Last.kind = k /\ Last.raised = "none") =>
            \A r \in DOMAIN engine[k].airtable_ids_to_ids :
                get_by_airtable_id(engine[k], r).raised = "none" =>
                    \E i \in 1..Len(table[k]) : table[k][i].id = r

\* the field mappings a sync() sent in its creates and updates
SentFields(calls) ==
    UNION {IF calls[i].call = "batch_insert" THEN Range(calls[i].records)
           ELSE IF calls[i].call = "update" THEN {calls[i].fields}
           ELSE {} : i \in 1..Len(calls)}

\* every relationship field of f holds remote ids of records of tbl
RefsPresent(k, f, tbl) ==
    \A n \in DOMAIN RelFields(k) \cap DOMAIN f :
        \A x \in Range(f[n]) :
            /\ x # None
            /\ \E i \in 1..Len(tbl[RelFields(k)[n]]) : tbl[RelFields(k)[n]][i].id = x

\* index in hist of the setup of the running process
RunStart ==
    CHOOSE i \in 1..Len(hist) :
        /\ hist[i].op = "setup"
        /\ \A j \in (i + 1)..Len(hist) : hist[j].op # "setup"

\* C15: the engines are constructed and processed in the order Server,
\* Namespace, Repository, Style, Layer, LayerGroup; a kind's sync() comes
\* after the sync() and the following status() of every kind it references;
\* every relationship field sent in a create or update holds non-null
\* remote ids of records then present in the referenced kind's table.
C15_DependencyOrder ==
    /\ (hist # <<>> /\ Last.op = "setup") =>
          \A i \in 1..Len(CliKinds) :
              (i > CliIndex(Last.kind)) => engine[CliKinds[i]] = NoEngine
    /\ (hist # <<>> /\ Last.op \in {"status", "sync"}) =>
          /\ Last.kind = cli_kind(Pos) /\ Last.op = cli_op(Pos)
    /\ (hist # <<>> /\ Last.op = "sync") =>
          /\ \A n \in DOMAIN RelFields(Last.kind) :
                \E i \in (RunStart + 1)..(Len(hist) - 2) :
                    /\ hist[i].op = "sync" /\ hist[i].kind = RelFields(Last.kind)[n]
                    /\ hist[i + 1].op = "status" /\ hist[i + 1].kind = hist[i].kind
          /\ \A f \in SentFields(Last.calls) : RefsPresent(Last.kind, f, table)

\* the running process has made every engine call of the sync command
RunComplete == hist # <<>> /\ err = "none" /\ Last.op = "status" /\ Pos = 3 * Len(CliKinds)

\* C16: after a complete run of the sync command, every relationship field
\* of every remote record holds only remote ids of records that exist in
\* the referenced kind's table.
C16_ReferencesIntact ==
    RunComplete =>
        \A k \in CliKindSet : \A i \in 1..Len(table[k]) :
            RefsPresent(k, table[k][i].fields, table)

\* the value the running process's last status() of the i-th kind returned
FinalStatus(i) == hist[RunStart + 3 * i].ret

\* a process was interrupted and a later process is running or has ended
AfterInterrupt == hist # <<>> /\ Runs > 1 /\ Last.op # "interrupt"

\* C17: a run of the sync command started after an interrupted one finishes
\* without error and leaves every kind with all local ids current and
\* nothing missing, outdated or orphaned.
C17_RecoversAfterInterrupt ==
    AfterInterrupt =>
        /\ err = "none"
        /\ RunComplete =>
              \A i \in 1..Len(CliKinds) : AllCurrent(CliKinds[i], FinalStatus(i))

\* kind k's table when the first process started
StartTable(k) ==
    IF \E i \in 2..Len(hist) : hist[i].kind = k
    THEN hist[CHOOSE i \in 2..Len(hist) :
                 /\ hist[i].kind = k
                 /\ \A j \in 2..(i - 1) : hist[j].kind # k].pre
    ELSE table[k]

\* an uninterrupted run of the sync command on tbl ends with every kind current
Converges(tbl) ==
    LET r == cli_process(tbl, FirstRid(tbl)) IN
    /\ r.raised = "none"
    /\ \A i \in 1..Len(CliKinds) : AllCurrent(CliKinds[i], r.rets[3 * i])

\* where an uninterrupted run brings every kind to all-current, a run
\* resumed after an interruption does so too
InterruptHarmless ==
    Converges([k \in CliKindSet |-> StartTable(k)]) => C17_RecoversAfterInterrupt

-----------------------------------------------------------------------------
(* The adapters on their own.                                              *)

\* the record parsed back carries exactly the fields that were sent
Unchanged == table.change = "none"

Done(n) == Len(hist) >= n

\* C18: wrapping a local entity, converting it with airtable_fields() and
\* parsing a record carrying exactly those fields with the same bridges
\* raises nowhere and gives an adapter equal to the first one, for every
\* kind, a Layer with no geometry and a Style or LayerGroup with no
\* namespace included
C18_RoundTrip ==
    Unchanged =>
        /\ Done(2) => hist[2].raised = "none"
        /\ Done(3) => hist[3].raised = "none"
        /\ Done(4) => hist[4].result = "eq"

\* the attributes _dict() compares by value, by kind
SyncedScalars(k) ==
    CASE k = "Server" -> {"id", "name", "hostname", "type", "version"}
      [] k = "Namespace" -> {"id", "name", "title", "isolated"}
      [] k = "Repository" -> {"id", "name", "title", "type", "host", "database", "schema"}
      [] k = "Style" -> {"id", "name", "title", "type"}
      [] k = "Layer" -> {"id", "name", "title", "type", "geometry", "services", "table_view"}
      [] k = "LayerGroup" -> {"id", "name", "title", "services"}

\* the attributes holding one related adapter, and the kind it belongs to
SyncedOne(k) ==
    CASE k = "Server" -> <<>>
      [] k = "Namespace" -> [server |-> "Server"]
      [] k \in {"Repository", "Style"} -> [workspace |-> "Namespace"]
      [] k = "Layer" -> [workspace |-> "Namespace", store |-> "Repository"]
      [] k = "LayerGroup" -> [workspace |-> "Namespace"]

\* the attributes holding a list of related adapters
SyncedMany(k) ==
    CASE k = "Layer" -> [styles |-> "Style"]
      [] k = "LayerGroup" -> [layers |-> "Layer", styles |-> "Style"]
      [] OTHER -> <<>>

\* the remote ids a relationship of adapter x stands for
RemoteIds(k, x, E) ==
    [n \in DOMAIN SyncedOne(k) \cup DOMAIN SyncedMany(k) |->
        IF n \in DOMAIN SyncedOne(k)
        THEN IF x[n] = NoRef THEN <<>>
             ELSE <<Deref(E[SyncedOne(k)[n]], x[n]).airtable_id>>
        ELSE airtable_ids(E[SyncedMany(k)[n]], x[n])]

SameSynced(k, x, y, E) ==
    /\ \A n \in SyncedScalars(k) : x[n] = y[n]
    /\ RemoteIds(k, x, E) = RemoteIds(k, y, E)

\* C19: comparing a local adapter with a parsed remote one never raises,
\* also when the remote record lacks a relationship field, and they are
\* equal exactly when their synced scalar fields and the remote-id lists
\* of their relationships are equal
C19_EqualityByDict ==
    Done(4) =>
        /\ hist[4].result \in {"eq", "ne"}
        /\ hist[4].result = "eq"
              <=> SameSynced(table.kind, hist[1].item, hist[3].item, engine)

\* the remote field names of each kind; a Style names its Workspace only
\* when it has one
FieldNames(k, a) ==
    CASE k = "Server" -> {"ID", "Name", "Hostname", "Type", "Version"}
      [] k = "Namespace" -> {"ID", "Name", "Title", "Isolated", "Server"}
      [] k = "Repository" ->
            {"ID", "Name", "Title", "Type", "Host", "Database", "Schema", "Workspace"}
      [] k = "Style" ->
            {"ID", "Name", "Title", "Type"}
                \cup (IF a.workspace = NoRef THEN {} ELSE {"Workspace"})
      [] k = "Layer" ->
            {"ID", "Name", "Title", "Type", "Geometry", "Services", "Table/View",
             "Workspace", "Store", "Styles"}
      [] k = "LayerGroup" ->
            {"ID", "Name", "Title", "Services", "Workspace", "Layers", "Styles"}

\* C20: what airtable_fields() returns carries exactly the field names of
\* its kind, the list-valued Styles and Layers also when they are empty,
\* and a Style's Workspace only when the style has a namespace
C20_FieldNames ==
    (Done(2) /\ hist[2].raised = "none") =>
        DOMAIN hist[2].fields = FieldNames(table.kind, hist[1].item)

\* the fields of a Layer that has no styles were returned, with an empty
\* Styles list among them
C20_Witness ==
    /\ Done(2) /\ hist[2].raised = "none"
    /\ table.kind = "Layer" /\ table.item.styles = <<>>
    /\ hist[2].fields["Styles"] = <<>>

-----------------------------------------------------------------------------
(* One engine under any sequence of calls.                                 *)

\* the positions of the log that are calls on kind k's engine
CallsOn(k) == {i \in 1..Len(hist) : hist[i].kind = k}

\* kind k's remote table when its engine was constructed
TableAtStart(k) ==
    IF CallsOn(k) = {} THEN table[k]
    ELSE hist[CHOOSE i \in CallsOn(k) : \A j \in CallsOn(k) : i <= j].pre

\* no two records of recs declare the same ID
UniqueIds(recs) ==
    \A i, j \in 1..Len(recs) :
        (i < j /\ "ID" \in DOMAIN recs[i].fields /\ "ID" \in DOMAIN recs[j].fields)
            => recs[i].fields.ID # recs[j].fields.ID

\* C27: from a remote table in which no two records declare the same ID,
\* any sequence of status(), load() and sync() calls on one engine leaves a
\* remote table in which no two records declare the same ID
C27_NoDuplicateIds ==
    \A k \in KindSet :
        (/\ UniqueIds(TableAtStart(k))
         /\ \A i \in CallsOn(k) : hist[i].op \in {"status", "load", "sync"})
            => UniqueIds(table[k])

\* C28: after a stat() that returns, every identifier in orphaned is a key
\* of items_airtable, so the delete step of sync() finds a remote id for
\* every orphaned identifier and sync() raises no lookup error
C28_OrphansKnown ==
    /\ \A k \in KindSet : StatDone(k) =>
          \A id \in Range(engine[k].orphaned) : HasKey(engine[k].items_airtable, id)
    /\ \A k \in KindSet : \A i \in 1..Len(hist) :
          (Op(i, "sync", k) /\ FreshStat(i, k)) => hist[i].raised # "KeyError"

\* every record of recs is built into an inbound adapter
AllParse(k, recs, E) ==
    \A i \in 1..Len(recs) :
        /\ "ID" \in DOMAIN recs[i].fields
        /\ ItemClassAirtable_inbound(k, recs[i], E).raised = "none"

\* recs holds exactly one record per local entity of kind k and no other
OnePerEntity(k, recs) ==
    /\ \A i \in 1..Len(recs) :
          "ID" \in DOMAIN recs[i].fields /\ recs[i].fields.ID \in LocalIds(k)
    /\ \A L \in LocalIds(k) :
          Cardinality({i \in 1..Len(recs) : recs[i].fields.ID = L}) = 1

\* C30: after status() followed by sync() on a kind, from a remote table
\* whose records all parse (two records declaring one local id included),
\* the remote table holds exactly one record per local entity and no other
C30_OnePerEntity ==
    \A k \in KindSet : \A i \in 1..Len(hist) :
        (/\ Op(i, "status", k) /\ Ok(i) /\ Op(i + 1, "sync", k)
         /\ AllParse(k, hist[i].pre, hist[i].bridge))
            => (Ok(i + 1) /\ OnePerEntity(k, hist[i + 1].post))

\* the table fetched by the last stat() of kind k's engine that returned
\* before the call at position i: by a status(), or by the constructor
FetchedBefore(i, k) ==
    LET S == {j \in 1..(i - 1) : Op(j, "status", k) /\ Ok(j)}
    IN IF S = {} THEN TableAtStart(k) ELSE hist[Max(S)].pre

\* recs holds a record with remote id rid that declares ID = id
Declares(recs, rid, id) ==
    \E i \in 1..Len(recs) :
        /\ recs[i].id = rid
        /\ "ID" \in DOMAIN recs[i].fields /\ recs[i].fields.ID = id

\* C29: after a stat(), every local wrapper listed in current or outdated
\* carries a non-null remote id, that of a record of the table just fetched
\* declaring the wrapper's id, and get_by_airtable_id of that remote id gives
\* that wrapper; every update issued by sync() is keyed by the remote id of
\* a record, of the table last fetched, declaring the updated entity's id
C29_CorrelatedWrappers ==
    \A k \in KindSet :
        /\ StatDone(k) =>
              \A L \in Range(engine[k].current \o engine[k].outdated) :
                  /\ Wrapper(k, L).airtable_id # None
                  /\ Declares(table[k], Wrapper(k, L).airtable_id, L)
                  /\ get_by_airtable_id(engine[k], Wrapper(k, L).airtable_id)
                        = [raised |-> "none", ref |-> L]
        /\ \A i \in 1..Len(hist) : Op(i, "sync", k) =>
              \A c \in 1..Len(hist[i].calls) :
                  hist[i].calls[c].call = "update" =>
                      Declares(FetchedBefore(i, k), hist[i].calls[c].record_id,
                               hist[i].calls[c].fields.ID)

\* a sync() issued an update and the status() after it returned, listing
\* the updated wrapper current under the remote id of the updated record
C29_Witness ==
    /\ Len(hist) = 2
    /\ hist[1].op = "sync" /\ hist[2].op = "status" /\ hist[2].raised = "none"
    /\ hist[1].kind = hist[2].kind
    /\ \E c \in 1..Len(hist[1].calls) :
          /\ hist[1].calls[c].call = "update"
          /\ Occ(hist[2].ret.current, hist[1].calls[c].fields.ID) = 1
          /\ Wrapper(hist[2].kind, hist[1].calls[c].fields.ID).airtable_id
                = hist[1].calls[c].record_id

-----------------------------------------------------------------------------
(* The six kinds under the sync command.                                   *)

\* the remote fields of the local wrapper of id L held by engine e
FieldsOf(k, e, L, E) == airtable_fields(k, GetKey(e.items_local, L), E)

\* recs holds exactly one record per local entity of kind k, carrying the
\* entity's ID and field values, with relationship fields that resolve
\* through the sibling engines E, and no other record
Mirrors(k, recs, e, E) ==
    /\ OnePerEntity(k, recs)
    /\ AllParse(k, recs, E)
    /\ \A i \in 1..Len(recs) :
          /\ FieldsOf(k, e, recs[i].fields.ID, E).raised = "none"
          /\ FieldsOf(k, e, recs[i].fields.ID, E).fields = recs[i].fields

\* the constructors of all six engines have just returned
SetupDone == hist # <<>> /\ Last.op = "setup" /\ Last.raised = "none"

\* C22: for each of the six kinds, when the remote table holds exactly one
\* record per local entity with the same ID and field values and resolving
\* relationship fields, the constructor's pass leaves items_airtable with
\* as many entries as the local collection, and status() returns every
\* local id in current, with outdated, missing and orphaned empty
C22_MirrorIsCurrent ==
    \A k \in CliKindSet :
        /\ (SetupDone /\ Mirrors(k, table[k], engine[k], engine)) =>
              Len(engine[k].items_airtable) = Len(items(k))
        /\ \A i \in 1..Len(hist) :
              (/\ Op(i, "status", k)
               /\ Mirrors(k, hist[i].pre, hist[i].before, hist[i].bridge))
                  => (Ok(i) /\ AllCurrent(k, hist[i].ret))

\* status() of the layer group engine returned on a table mirroring the
\* local layer groups, every earlier kind mirrored as well
C22_Witness ==
    /\ hist # <<>> /\ Last.op = "status" /\ Last.kind = "LayerGroup"
    /\ Last.raised = "none"
    /\ \A k \in CliKindSet : Mirrors(k, table[k], engine[k], engine)
    /\ Mirrors("LayerGroup", Last.pre, Last.before, Last.bridge)
    /\ AllCurrent("LayerGroup", Last.ret)

\* the list-valued relationship fields
ListFields == {"Styles", "Layers"}

\* the fields f and g differ at most in the order of the entries of their
\* list-valued relationship fields
SameUpToOrder(f, g) ==
    /\ DOMAIN f = DOMAIN g
    /\ \A n \in DOMAIN f :
          IF n \in ListFields
          THEN Len(f[n]) = Len(g[n]) /\ Range(f[n]) = Range(g[n])
          ELSE f[n] = g[n]

\* C25: the classification of a Layer or LayerGroup does not depend on the
\* order of the entries of a list-valued relationship: when the one remote
\* record of a local entity lists the same style (or layer) remote ids as
\* the entity in another order, status() lists the entity current
C25_ListOrderIrrelevant ==
    \A k \in {"Layer", "LayerGroup"} : \A i \in 1..Len(hist) :
        (Op(i, "status", k) /\ Ok(i)) =>
            \A r \in 1..Len(hist[i].pre) :
                (/\ OnePerEntity(k, hist[i].pre)
                 /\ AllParse(k, hist[i].pre, hist[i].bridge)
                 /\ FieldsOf(k, hist[i].before, hist[i].pre[r].fields.ID,
                             hist[i].bridge).raised = "none"
                 /\ SameUpToOrder(hist[i].pre[r].fields,
                                  FieldsOf(k, hist[i].before, hist[i].pre[r].fields.ID,
                                           hist[i].bridge).fields))
                    => Occ(hist[i].ret.current, hist[i].pre[r].fields.ID) = 1

-----------------------------------------------------------------------------
(* Optional namespaces.                                                    *)

\* the entity drawn has no namespace, or the record parsed back has no
\* Workspace field
NamespaceAbsent == table.item.namespace = NoRef \/ table.change = "Workspace"

\* C21: a Style or a LayerGroup whose namespace is absent, locally or in the
\* remote record, is handled without error: its field mapping is built (as
\* load() and sync() do), its record is parsed and two such adapters are
\* compared (as stat() does)
C21_OptionalNamespace ==
    (table.kind \in {"Style", "LayerGroup"} /\ NamespaceAbsent) =>
        \A i \in 1..Len(hist) : hist[i].raised = "none"

-----------------------------------------------------------------------------
(* The reset command.                                                      *)

\* the command was confirmed and its engines were constructed
ResetStarted ==
    /\ Len(hist) >= 2
    /\ hist[1].op = "confirm" /\ hist[1].raised = "none"
    /\ hist[2].op = "setup" /\ hist[2].raised = "none"

\* the command has ended: by an exception, or after its last call
ResetEnded == err # "none" \/ Len(hist) = 2 + Len(reset_calls)

\* the remote ids of the records of recs
RecordIds(recs) == {recs[i].id : i \in 1..Len(recs)}

\* C24: the reset command, once confirmed, calls reset() on all six kinds
\* and terminates normally, and afterwards no kind's remote table holds a
\* record it held before the command
C24_ResetAllKinds ==
    (ResetStarted /\ ResetEnded) =>
        /\ err = "none"
        /\ \A k \in CliKindSet : \E i \in 1..Len(hist) : Op(i, "reset", k)
        /\ \A k \in CliKindSet : RecordIds(table[k]) \cap RecordIds(hist[1].pre[k]) = {}

-----------------------------------------------------------------------------
(* Keyword arguments.                                                      *)

\* the engine was constructed without the sibling engine its kind reads
Unsupplied ==
    hist # <<>> /\ kwargs_sibling(KwargsKind) \notin DOMAIN hist[1].bridge

-----------------------------------------------------------------------------
(* Lookups by label.                                                       *)

\* the items of the collection that the lookup asks for: those with the
\* label, and for a namespace-scoped lookup with the namespace label
Matching ==
    {i \in 1..Len(table.coll) :
        /\ table.coll[i].label = table.label
        /\ (table.class \in {"Styles", "Layers"} /\ table.namespace_label # NoRef)
              => table.coll[i].namespace = table.namespace_label}

\* C26: Styles.get_by_label and Layers.get_by_label, given a label and a
\* namespace label, return an item with that label in that namespace
\* whenever the collection holds one and None otherwise, whatever else
\* the collection holds (same label in another namespace or in no
\* namespace); Namespaces and Repositories match on the label alone
C26_ScopedLookup ==
    hist # <<>> =>
        /\ hist[1].raised = "none"
        /\ hist[1].found <=> Matching # {}
        /\ hist[1].found => \E i \in Matching : hist[1].item = table.coll[i]

====
